---- MODULE Spec2Model ----
(***************************************************************************)
(* Model of the generated-component rendering pipeline of the dashboard:   *)
(* SafeComponentRenderer (both revisions found in the repository), the     *)
(* text extraction it performs, the run-time execution of component code   *)
(* and the components it hands the result to.                              *)
(*                                                                         *)
(* componentCode is text.  It is modelled as a sequence of text fragments  *)
(* (joined by one space); every fragment stands for the literal text       *)
(* written next to it below, and every substring test, regular expression  *)
(* and parser of the source is modelled by what it does on that text.      *)
(* [fence] stands for the three backquotes of a markdown fence.            *)
(***************************************************************************)
EXTENDS Integers, Sequences, FiniteSets, TLC

\* Longest componentCode, in fragments.
MaxLen == 2

(***************************************************************************)
(* The fragments.                                                          *)
(*  CT         React.createElement(Card, {}, "Hello")                      *)
(*  CTGlobal   React.createElement("div", {}, window.location.href)        *)
(*  CTMetric   React.createElement(Metric, {}, "42")                       *)
(*  Semi       ;                                                           *)
(*  MapSim     the heat map of simulateRootAgent (route.ts 383-441)        *)
(*  MapOther   React.createElement(MapContainer, { center: [39.8283,       *)
(*             -98.5795], zoom: 4 }, React.createElement(TileLayer, {}),   *)
(*             three React.createElement(CircleMarker, { center: [..],     *)
(*             radius: .., fillColor: "..", }, React.createElement(Popup,  *)
(*             {}, "..")) at Seattle, Denver and Miami)                    *)
(*  MapBad     React.createElement(MapContainer, { center: [39.8283],      *)
(*             zoom: 4 }, React.createElement(TileLayer, {}))              *)
(*  ChartCT    React.createElement(LineChart, { data: [{"month": "Jan",    *)
(*             "value": 1200}] })                                          *)
(*  FJFull     [fence]json\n{"type": "interactive_map",                    *)
(*             "title": "Store Map", "map_config": {..},                   *)
(*             "performance_categories": {..}}\n[fence]                    *)
(*  FJBare     [fence]json\n{"type": "interactive_map"}\n[fence]           *)
(*  FJBroken   [fence]json\n{"type": "interactive_map",                    *)
(*             title: "Store Map"}\n[fence]   (a key without quotes)       *)
(*  MarkupCard <Card>Revenue</Card>                                        *)
(*  WCAG       WCAG                                                        *)
(*  geospatial geospatial                                                  *)
(*  hello      hello                                                       *)
(*  DataGood   data={[{"month": "Jan", "value": 1200}]}                    *)
(*  DataBad    data={[{month: "Jan", value: 1200}]}                        *)
(*  Title      <CardTitle> Revenue Overview </CardTitle>                   *)
(*  TitlePeriod <CardTitle>Period P2 Revenue</CardTitle>                   *)
(*  IIFE       (() => { return document.title })()                         *)
(* The fragments are chosen so that no match of a regular expression of    *)
(* the source spans two of them: outside its quoted strings no fragment    *)
(* holds a word the title patterns look for.                               *)
(***************************************************************************)
Fragments ==
    { "CT", "CTGlobal", "CTMetric", "Semi", "MapSim", "MapOther", "MapBad",
      "ChartCT", "FJFull", "FJBare", "FJBroken", "MarkupCard", "WCAG",
      "geospatial", "hello", "DataGood", "DataBad", "Title", "TitlePeriod",
      "IIFE" }

RECURSIVE SeqsUpTo(_, _)
SeqsUpTo(S, n) ==
    IF n = 0 THEN { <<>> }
    ELSE LET shorter == SeqsUpTo(S, n - 1)
         IN  shorter \cup { Append(s, x) : s \in shorter, x \in S }

\* Every componentCode the model renders.
Codes == SeqsUpTo(Fragments, MaxLen)

Range(s) == { s[i] : i \in DOMAIN s }

(***************************************************************************)
(* Option values: null / undefined is None, a value v is Some(v).          *)
(***************************************************************************)
None == <<>>
Some(v) == <<v>>

\* a || b of JavaScript on an optional string: null and "" are falsy.
\* A choice that always takes the default; C12 does not hold of it.
OrElseDefault(opt, dflt) == dflt

OrElse(opt, dflt) == IF opt = None \/ opt[1] = "" THEN dflt ELSE opt[1]

(***************************************************************************)
(* The tag set of the switch of SafeComponentRenderer, and two tags it     *)
(* does not know.                                                          *)
(***************************************************************************)
KnownTypes ==
    { "trend_line", "sales_trend", "metric_card", "kpi", "comparison_bar",
      "comparison_chart", "revenue_trend", "regional_heatmap",
      "agent_response", "accessible_dashboard", "comprehensive_dashboard",
      "comprehensive_business_dashboard", "business_intelligence_dashboard",
      "ytd_metrics", "ytd_dashboard", "kpi_dashboard", "ranking_table",
      "rankings", "top_performers" }

UnknownTypes == { "totally_unknown_tag", "general_response" }

ComponentTypes == KnownTypes \cup UnknownTypes

(***************************************************************************)
(* Substring tests.  Substrings(f) is the set of the texts the source      *)
(* searches for that occur in fragment f; LowerSubstrings(f) the same for  *)
(* the lower-cased fragment.  "f.cleaned" is fragment f after the fence    *)
(* removal of the agent_response and dashboard cases.                      *)
(***************************************************************************)
\* The text "type": "interactive_map" (written here without its quotes).
InteractiveMapKey == "type: interactive_map"

\* A fence line of markdown (three backquotes), bare and with the word json.
Fence == "[fence]"
JsonFence == "[fence]json"

FencedJson == { "FJFull", "FJBare", "FJBroken" }

MapFragments == { "MapSim", "MapOther", "MapBad" }

Substrings(f) ==
    CASE f \in { "CT", "CTGlobal", "CTMetric" } -> { "React.createElement" }
      [] f \in MapFragments -> { "React.createElement", "MapContainer", "TileLayer" }
      [] f = "ChartCT"      -> { "React.createElement", "LineChart" }
      [] f \in FencedJson   -> { JsonFence, Fence, InteractiveMapKey }
      [] f \in { "FJFull.cleaned", "FJBare.cleaned", "FJBroken.cleaned" }
                            -> { InteractiveMapKey }
      [] f = "MarkupCard"   -> { "<Card", "</Card>" }
      [] f \in { "Title", "TitlePeriod" } -> { "<Card" }
      [] f = "WCAG"         -> { "WCAG" }
      [] f = "geospatial"   -> { "geospatial" }
      [] f = "IIFE"         -> { "(() => {" }
      [] OTHER              -> { }

LowerSubstrings(f) ==
    CASE f = "MapSim" -> { "texas", "california" }
      [] OTHER        -> { }

\* Fragments whose text begins with the given prefix.
Prefixes(f) ==
    CASE f \in { "MarkupCard", "Title", "TitlePeriod" } -> { "<Card" }
      [] f \in FencedJson -> { Fence }
      [] OTHER -> { }

\* String.prototype.includes, startsWith and toLowerCase().includes.
includes(text, needle) == \E i \in DOMAIN text : needle \in Substrings(text[i])

lowerIncludes(text, needle) ==
    \E i \in DOMAIN text : needle \in LowerSubstrings(text[i])

startsWith(text, prefix) == Len(text) > 0 /\ prefix \in Prefixes(text[1])

(***************************************************************************)
(* code.replace(/[fence]jsx\n?|[fence]\n?/g, '')                          *)
(*     .replace(/[fence]json\n?|[fence]\n?/g, '')                         *)
(* .trim(): the first replace already removes the three backquotes of a    *)
(* [fence]json fence, so the word json stays in front of the block         *)
(* ("json\n{...}"); no other fragment holds a fence.                       *)
(***************************************************************************)
cleanFragment(f) ==
    CASE f = "FJFull"   -> "FJFull.cleaned"
      [] f = "FJBare"   -> "FJBare.cleaned"
      [] f = "FJBroken" -> "FJBroken.cleaned"
      [] OTHER          -> f

removeFences(code) == [i \in DOMAIN code |-> cleanFragment(code[i])]

(***************************************************************************)
(* JSON.  The text of a JSON object is the sequence of its members as      *)
(* written, each with its key, whether the key is written in quotes and    *)
(* its value; the text of an array is the sequence of the texts of its     *)
(* elements.  JSON.parse throws a SyntaxError on a key without quotes and  *)
(* otherwise builds the object the members describe.                       *)
(***************************************************************************)
Member(k, q, v) == [key |-> k, quoted |-> q, value |-> v]

Thrown(e) == [thrown |-> TRUE, error |-> e]
Returned(v) == [thrown |-> FALSE, value |-> v]

objectOf(members) ==
    [k \in { members[i].key : i \in DOMAIN members } |->
        (CHOOSE m \in Range(members) : m.key = k).value]

JSONparseObject(members) ==
    IF \A i \in DOMAIN members : members[i].quoted
    THEN Returned(objectOf(members))
    ELSE Thrown("SyntaxError")

JSONparseArray(elements) ==
    IF \A i \in DOMAIN elements : \A j \in DOMAIN elements[i] : elements[i][j].quoted
    THEN Returned([i \in DOMAIN elements |-> objectOf(elements[i])])
    ELSE Thrown("SyntaxError")

(***************************************************************************)
(* The default datasets of the renderer and of the chart components.       *)
(***************************************************************************)
defaultProductData ==
    << [category |-> "Product A", value |-> 2400],
       [category |-> "Product B", value |-> 1800],
       [category |-> "Product C", value |-> 3200],
       [category |-> "Product D", value |-> 1600] >>

defaultSalesData ==
    << [month |-> "Jan", value |-> 1200], [month |-> "Feb", value |-> 1350],
       [month |-> "Mar", value |-> 1580], [month |-> "Apr", value |-> 1420],
       [month |-> "May", value |-> 1650], [month |-> "Jun", value |-> 1780] >>

(***************************************************************************)
(* The three patterns of the extraction step, by what they capture in a    *)
(* fragment; a pattern matches at the first fragment it matches in.        *)
(***************************************************************************)
\* /data=\{(\[[\s\S]*?\])\}/, capture 1
dataCapture(f) ==
    CASE f = "DataGood" ->
            Some(<< << Member("month", TRUE, "Jan"), Member("value", TRUE, 1200) >> >>)
      [] f = "DataBad" ->
            Some(<< << Member("month", FALSE, "Jan"), Member("value", FALSE, 1200) >> >>)
      [] OTHER -> None

\* /<CardTitle[^>]*>([^<]+)<\/CardTitle>/, capture 1
titleCapture(f) ==
    CASE f = "Title"       -> Some(" Revenue Overview ")
      [] f = "TitlePeriod" -> Some("Period P2 Revenue")
      [] OTHER -> None

\* /(?:Sales Trend - |Period.*?)([A-Z]\d+)/, capture 1
periodCapture(f) ==
    CASE f = "TitlePeriod" -> Some("P2")
      [] OTHER -> None

\* String.prototype.match without the g flag: the first match in the text,
\* given what the pattern captures in each fragment of the text.
firstMatch(captures) ==
    IF \E i \in DOMAIN captures : captures[i] # None
    THEN captures[CHOOSE i \in DOMAIN captures :
                     /\ captures[i] # None
                     /\ \A j \in 1..(i - 1) : captures[j] = None]
    ELSE None

\* String.prototype.trim
trim(str) == IF str = " Revenue Overview " THEN "Revenue Overview" ELSE str

(***************************************************************************)
(* The extraction step of SafeComponentRenderer: one try block around the  *)
(* three fields, one catch that sets the data only.                        *)
(***************************************************************************)
\* The default by type with one of the two comparison tags forgotten; C11
\* and C15 do not hold of it.
typeDefaultDataBarOnly(componentType) ==
    IF componentType = "comparison_bar"
    THEN defaultProductData
    ELSE defaultSalesData

typeDefaultData(componentType) ==
    IF componentType = "comparison_chart" \/ componentType = "comparison_bar"
    THEN defaultProductData
    ELSE defaultSalesData

\* The extraction step without its try block; C9 does not hold of it.
ExtractionWithoutCatch(componentCode, componentType) ==
    LET dataMatch   ==
            firstMatch([k \in DOMAIN componentCode |-> dataCapture(componentCode[k])])
        parsed      == JSONparseArray(dataMatch[1])
        titleMatch  ==
            firstMatch([k \in DOMAIN componentCode |-> titleCapture(componentCode[k])])
        periodMatch ==
            firstMatch([k \in DOMAIN componentCode |-> periodCapture(componentCode[k])])
    IN  IF dataMatch # None /\ parsed.thrown
        THEN [ extractedData   |-> None,
               extractedTitle  |-> None,
               extractedPeriod |-> None,
               threw           |-> TRUE ]
        ELSE [ extractedData   |-> IF dataMatch # None
                                   THEN Some(parsed.value)
                                   ELSE Some(typeDefaultData(componentType)),
               extractedTitle  |-> IF titleMatch # None
                                   THEN Some(trim(titleMatch[1])) ELSE None,
               extractedPeriod |-> periodMatch,
               threw           |-> FALSE ]

Extraction(componentCode, componentType) ==
    LET dataMatch   ==
            firstMatch([k \in DOMAIN componentCode |-> dataCapture(componentCode[k])])
        parsed      == JSONparseArray(dataMatch[1])
        titleMatch  ==
            firstMatch([k \in DOMAIN componentCode |-> titleCapture(componentCode[k])])
        periodMatch ==
            firstMatch([k \in DOMAIN componentCode |-> periodCapture(componentCode[k])])
    IN  IF dataMatch # None /\ parsed.thrown
        THEN \* catch (e)
             [ extractedData   |-> Some(defaultSalesData),
               extractedTitle  |-> None,
               extractedPeriod |-> None,
               threw           |-> FALSE ]
        ELSE [ extractedData   |-> IF dataMatch # None
                                   THEN Some(parsed.value)
                                   ELSE Some(typeDefaultData(componentType)),
               extractedTitle  |-> IF titleMatch # None
                                   THEN Some(trim(titleMatch[1])) ELSE None,
               extractedPeriod |-> periodMatch,
               threw           |-> FALSE ]

(***************************************************************************)
(* JavaScript source text.  A fragment is an expression of its own         *)
(* (canStart), continues the expression written before it (canFollow: a    *)
(* parenthesised text after an expression is a call of its value, a        *)
(* backquoted text a tagged template), is the separator ";", or is none of *)
(* these (markup, a cleaned JSON block), which no position accepts.        *)
(***************************************************************************)
canStart(f) ==
    f \in { "CT", "CTGlobal", "CTMetric", "ChartCT", "WCAG", "geospatial",
            "hello", "IIFE" } \cup MapFragments \cup FencedJson

canFollow(f) == f \in { "IIFE" } \cup FencedJson

\* new Function('return (' + text + ')') does not throw a SyntaxError
parsesAsExpression(text) ==
    /\ Len(text) >= 1
    /\ canStart(text[1])
    /\ \A i \in 2..Len(text) : canFollow(text[i])

\* new Function(..., 'return ' + text) does not throw a SyntaxError
parsesAsBody(text) ==
    \A i \in DOMAIN text :
        \/ text[i] = "Semi"
        \/ IF i = 1 \/ text[i - 1] = "Semi"
           THEN canStart(text[i])
           ELSE canFollow(text[i])

\* The identifiers a fragment reads when it is evaluated, in the order of
\* evaluation.
freeNames(f) ==
    CASE f = "CT"       -> << "React", "Card" >>
      [] f = "CTGlobal" -> << "React", "window" >>
      [] f = "CTMetric" -> << "React", "Metric" >>
      [] f = "MapSim"   -> << "React", "Card", "MapPin", "Text", "MapContainer",
                              "TileLayer", "CircleMarker", "Popup" >>
      [] f = "MapOther" -> << "React", "MapContainer", "TileLayer",
                              "CircleMarker", "Popup" >>
      [] f = "MapBad"   -> << "React", "MapContainer", "TileLayer" >>
      [] f = "ChartCT"  -> << "React", "LineChart" >>
      [] f \in { "IIFE", "IIFE.body" } -> << "document" >>
      [] f \in { "WCAG", "geospatial", "hello" } -> << f >>
      [] OTHER          -> << >>

\* The names of the global object, which every function made by
\* new Function sees besides its parameters.
Globals == { "window", "document", "console" }

\* The text of a function body up to its first ";" : the operand of return.
RECURSIVE returnOperand(_)
returnOperand(text) ==
    IF text = << >> \/ Head(text) = "Semi" THEN << >>
    ELSE << Head(text) >> \o returnOperand(Tail(text))

\* The longest prefix of names that resolves in the scope.
RECURSIVE resolved(_, _)
resolved(names, scope) ==
    IF names = << >> \/ Head(names) \notin scope THEN << >>
    ELSE << Head(names) >> \o resolved(Tail(names), scope)

(***************************************************************************)
(* Numbers in text.  parseFloat and parseInt by what they return for the   *)
(* number texts of the fragments; a coordinate is kept in units of 1/10000 *)
(* of a degree.                                                            *)
(***************************************************************************)
parseFloat(str) ==
    CASE str = "39.8283"   -> 398283   [] str = "-98.5795"  -> -985795
      [] str = "34.0522"   -> 340522   [] str = "-118.2437" -> -1182437
      [] str = "31.9686"   -> 319686   [] str = "-99.9018"  -> -999018
      [] str = "40.7589"   -> 407589   [] str = "-73.9851"  -> -739851
      [] str = "47.6062"   -> 476062   [] str = "-122.3321" -> -1223321
      [] str = "39.7392"   -> 397392   [] str = "-104.9903" -> -1049903
      [] str = "25.7617"   -> 257617   [] str = "-80.1918"  -> -801918

parseInt(str) ==
    CASE str = "4" -> 4    [] str = "9" -> 9    [] str = "10" -> 10
      [] str = "12" -> 12  [] str = "13" -> 13  [] str = "15" -> 15
      [] str = "20" -> 20

MarkerText(c1, c2, r, fill, popup) ==
    [center |-> << c1, c2 >>, radius |-> r, fillColor |-> fill, popup |-> popup]

\* What the marker pattern (React.createElement(CircleMarker, { center: [..],
\* radius: .., fillColor: "..", ... React.createElement(Popup, {}, "..")),
\* with the g flag) captures in a fragment: center text split at ",",
\* radius, fill colour and popup text of every marker, in order.
markerCaptures(f) ==
    CASE f = "MapSim" ->
            << MarkerText("34.0522", "-118.2437", "20", "#ef4444", "California: $45,000"),
               MarkerText("31.9686", "-99.9018", "15", "#f97316", "Texas: $32,000"),
               MarkerText("40.7589", "-73.9851", "13", "#eab308", "New York: $28,000") >>
      [] f = "MapOther" ->
            << MarkerText("47.6062", "-122.3321", "12", "#3b82f6", "Seattle: $53,000"),
               MarkerText("39.7392", "-104.9903", "10", "#3b82f6", "Denver: $41,000"),
               MarkerText("25.7617", "-80.1918", "9", "#3b82f6", "Miami: $38,000") >>
      [] OTHER -> << >>

\* /React\.createElement\(MapContainer,\s*\{\s*center:\s*\[([^\]]+)\],
\*  \s*zoom:\s*(\d+)/ : the center text split at "," and the zoom text.
mapCenterCapture(f) ==
    CASE f \in { "MapSim", "MapOther" } ->
            Some([center |-> << "39.8283", "-98.5795" >>, zoom |-> "4"])
      [] f = "MapBad" -> Some([center |-> << "39.8283" >>, zoom |-> "4"])
      [] OTHER -> None

\* The first quoted string that holds one of the words of the title
\* patterns of the map branches (territory, Analysis, Texas, California,
\* sales).
mapTitleCapture(f) ==
    CASE f = "MapSim" -> Some("Regional Sales Volume Analysis")
      [] OTHER -> None

\* /"([^"]*(?:Sales|Trend|Q\d)[^"]*)"/i
chartTitleCapture(f) ==
    CASE f = "MapSim" -> Some("Regional Sales Volume Analysis")
      [] OTHER -> None

\* /data:\s*\[([^\]]+)\]/ , capture 1 between "[" and "]"
chartDataCapture(f) ==
    CASE f = "ChartCT" ->
            Some(<< << Member("month", TRUE, "Jan"), Member("value", TRUE, 1200) >> >>)
      [] OTHER -> None

\* String.prototype.matchAll: all matches of the text, in order.
RECURSIVE allMarkerMatches(_)
allMarkerMatches(text) ==
    IF text = << >> THEN << >>
    ELSE markerCaptures(Head(text)) \o allMarkerMatches(Tail(text))

\* label.split(':')[0]
regionOf(label) ==
    CASE label = "California: $45,000" -> "California"
      [] label = "Texas: $32,000"      -> "Texas"
      [] label = "New York: $28,000"   -> "New York"
      [] label = "Seattle: $53,000"    -> "Seattle"
      [] label = "Denver: $41,000"     -> "Denver"
      [] label = "Miami: $38,000"      -> "Miami"
      [] OTHER                         -> label

\* Array.prototype.slice(from, to) with 0-based bounds
slice(arr, from, to) ==
    SubSeq(arr, from + 1, IF to < Len(arr) THEN to ELSE Len(arr))

(***************************************************************************)
(* Render trees.  An element is its component, the place of the source     *)
(* that returned it and its props.                                         *)
(***************************************************************************)
Element(c, at, p) == [component |-> c, site |-> at, props |-> p]

\* null and undefined as a render result
NullTree == Element("null", "none", [empty |-> TRUE])

\* The marker elements a piece of markup shows.
MarkerNode(c, r, fill, popup) ==
    [center |-> c, radius |-> r, fillColor |-> fill, popup |-> popup]

\* The value a fragment evaluates to once all its names are bound: the
\* element tree its createElement calls build.
markerNodes(f) ==
    LET m == markerCaptures(f)
    IN  [i \in DOMAIN m |->
            MarkerNode(<< parseFloat(m[i].center[1]), parseFloat(m[i].center[2]) >>,
                       parseInt(m[i].radius), m[i].fillColor, m[i].popup)]

valueOf(f, args) ==
    CASE f = "CT"       -> Element("Card", "executed", [children |-> "Hello"])
      [] f = "CTGlobal" -> Element("div", "executed", [children |-> "window.location.href"])
      [] f = "CTMetric" -> Element("Metric", "executed", [children |-> "42"])
      [] f = "ChartCT"  -> Element("LineChart", "executed",
                                   [data |-> << [month |-> "Jan", value |-> 1200] >>])
      [] f = "MapSim"   -> Element("Card", "executed",
                                   [title |-> "Regional Sales Volume Analysis",
                                    map |-> args["MapContainer"],
                                    center |-> << 398283, -985795 >>, zoom |-> 4,
                                    markers |-> markerNodes(f)])
      [] f = "MapOther" -> Element(args["MapContainer"], "executed",
                                   [center |-> << 398283, -985795 >>, zoom |-> 4,
                                    markers |-> markerNodes(f)])
      [] f = "MapBad"   -> Element(args["MapContainer"], "executed",
                                   [center |-> << 398283 >>, zoom |-> 4,
                                    markers |-> << >>])
      [] f \in { "IIFE", "IIFE.body" } ->
                           Element("#text", "executed", [children |-> "document.title"])

(***************************************************************************)
(* Functions made from text.  newFunction models the Function constructor  *)
(* with a body "return <text>": a SyntaxError, or a function that keeps    *)
(* its parameter names and its text.  callFunction models the call: the    *)
(* operand of return is evaluated, every name is looked up among the       *)
(* parameters and then in the global object, a name found in neither is a  *)
(* ReferenceError, and calling a value that is no function a TypeError.    *)
(* reached is the set of names the call has read, args the values passed   *)
(* for the parameters.                                                     *)
(***************************************************************************)
newFunction(params, text) ==
    IF parsesAsBody(text)
    THEN Returned([params |-> params, body |-> text])
    ELSE Thrown("SyntaxError")

callFunction(fn, args) ==
    LET operand == returnOperand(fn.body)
        names   == freeNames(operand[1])
        found   == resolved(names, fn.params \cup Globals)
    IN  IF operand = << >>
        THEN [thrown |-> FALSE, value |-> NullTree, reached |-> { }]
        ELSE IF Len(found) < Len(names)
        THEN [thrown |-> TRUE, error |-> "ReferenceError", reached |-> Range(found)]
        ELSE IF operand[1] \in FencedJson \/ Len(operand) > 1
        THEN [thrown |-> TRUE, error |-> "TypeError", reached |-> Range(found)]
        ELSE [thrown |-> FALSE, value |-> valueOf(operand[1], args),
              reached |-> Range(found)]

\* One use of the Function constructor on componentCode, as the renderer
\* makes it: where, whether the text was parse-checked first, whether the
\* function was built, whether it was called, and the names the call read.
Execution(at, text, params, checked, built, invoked, names) ==
    [site |-> at, text |-> text, params |-> params, checked |-> checked,
     built |-> built, invoked |-> invoked, reached |-> names]

(***************************************************************************)
(* Lengths of the fragments in characters, and String.prototype.substring  *)
(* (0, n): the fragments that fit whole, and whether the text was cut.     *)
(***************************************************************************)
charLength(f) ==
    CASE f = "CT" -> 38          [] f = "CTGlobal" -> 52    [] f = "CTMetric" -> 37
      [] f = "Semi" -> 1         [] f = "MapSim" -> 2582    [] f = "MapOther" -> 790
      [] f = "MapBad" -> 101     [] f = "ChartCT" -> 75     [] f = "FJFull" -> 608
      [] f = "FJBare" -> 40      [] f = "FJBroken" -> 60    [] f = "FJFull.cleaned" -> 600
      [] f = "FJBare.cleaned" -> 32   [] f = "FJBroken.cleaned" -> 52
      [] f = "MarkupCard" -> 20  [] f = "WCAG" -> 4         [] f = "geospatial" -> 10
      [] f = "hello" -> 5        [] f = "DataGood" -> 40    [] f = "DataBad" -> 36
      [] f = "Title" -> 41       [] f = "TitlePeriod" -> 40 [] f = "IIFE" -> 35

RECURSIVE textLength(_)
textLength(text) ==
    IF text = << >> THEN 0
    ELSE charLength(Head(text)) + (IF Len(text) > 1 THEN 1 ELSE 0) + textLength(Tail(text))

RECURSIVE wholeFragments(_, _)
wholeFragments(text, n) ==
    IF text = << >> \/ charLength(Head(text)) > n THEN << >>
    ELSE << Head(text) >> \o wholeFragments(Tail(text), n - charLength(Head(text)) - 1)

substring(text, n) ==
    [shown |-> wholeFragments(text, n), cut |-> textLength(text) > n]

(***************************************************************************)
(* The fenced JSON blocks.  /[fence]json\s*([\s\S]*?)\s*[fence]/ captures  *)
(* the text between the fences of the first block.                         *)
(***************************************************************************)
\* MarkerData of InteractiveMapDisplay
MarkerData(c, label, color, r) ==
    [center |-> c, label |-> label, color |-> color, radius |-> r]

storeMapConfig ==
    [center  |-> << 398283, -985795 >>,
     zoom    |-> 4,
     markers |-> << MarkerData(<< 407589, -739851 >>, "North: $89,000", "#8b5cf6", 13),
                    MarkerData(<< 257617, -801918 >>, "South: $38,000", "#c084fc", 9) >>]

storeMapCategories ==
    [high |-> [label |-> "High Performance", color |-> "#8b5cf6",
               regions |-> << "North" >>,
               zoom_bounds |-> [center |-> << 407589, -739851 >>, zoom |-> 6]],
     low  |-> [label |-> "Emerging Markets", color |-> "#c084fc",
               regions |-> << "South" >>,
               zoom_bounds |-> [center |-> << 257617, -801918 >>, zoom |-> 6]]]

jsonCapture(f) ==
    CASE f = "FJFull" ->
            Some(<< Member("type", TRUE, "interactive_map"),
                    Member("title", TRUE, "Store Map"),
                    Member("map_config", TRUE, storeMapConfig),
                    Member("performance_categories", TRUE, storeMapCategories) >>)
      [] f = "FJBare" ->
            Some(<< Member("type", TRUE, "interactive_map") >>)
      [] f = "FJBroken" ->
            Some(<< Member("type", TRUE, "interactive_map"),
                    Member("title", FALSE, "Store Map") >>)
      [] OTHER -> None

(***************************************************************************)
(* InteractiveMapDisplay, as far as its first render goes: the initial     *)
(* values of its state and its debug log read mapData.map_config.center,   *)
(* .zoom and .markers.length and the keys of mapData.performance_          *)
(* categories; reading a property of undefined is a TypeError.             *)
(***************************************************************************)
InteractiveMapDisplayThrows(mapData) ==
    \/ "map_config" \notin DOMAIN mapData
    \/ "markers" \notin DOMAIN mapData.map_config
    \/ "performance_categories" \notin DOMAIN mapData

\* Rendering the tree the renderer returned: an exception of a component
\* of the tree is not caught by the try blocks of the renderer.
childThrows(tree) ==
    /\ tree.component = "InteractiveMapDisplay"
    /\ InteractiveMapDisplayThrows(tree.props.mapData)

(***************************************************************************)
(* The hand-written blocks of the switch.                                  *)
(***************************************************************************)
LoadingCard(at, label) == Element("Card", at, [label |-> label])

staticHeatmapMarkers ==
    << MarkerNode(<< 340522, -1182437 >>, 20, "#ef4444", "California: $45,000"),
       MarkerNode(<< 319686, -999018 >>, 15, "#f97316", "Texas: $32,000"),
       MarkerNode(<< 407589, -739851 >>, 13, "#eab308", "New York: $28,000") >>

StaticHeatmap ==
    Element("Card", "regional_heatmap",
            [title   |-> "Regional Sales Analysis",
             center  |-> << 398283, -985795 >>,
             zoom    |-> 4,
             markers |-> staticHeatmapMarkers])

\* The heat map without the isClient guard; C3 does not hold of it.
RegionalHeatmapUnguarded(isClient) == StaticHeatmap

RegionalHeatmap(isClient) ==
    IF ~isClient
    THEN LoadingCard("regional_heatmap.ssr", "Loading Map...")
    ELSE StaticHeatmap

YtdMetrics ==
    Element("Card", "ytd_metrics", [title |-> "YTD Sales", value |-> "$467K"])

RankingTable ==
    Element("Card", "ranking_table",
            [title |-> "Top Performers",
             rows  |-> << "New York", "San Francisco", "Seattle" >>])

\* A default card that does not name the type; C2 does not hold of it.
DefaultCardUntyped(componentType) ==
    Element("Card", "default",
            [title |-> "AI Generated Component",
             componentType |-> "unknown",
             note |-> "Working with pre-built components for better reliability"])

DefaultCard(componentType) ==
    Element("Card", "default",
            [title |-> "AI Generated Component",
             componentType |-> componentType,
             note |-> "Working with pre-built components for better reliability"])

AccessibleCard ==
    Element("Card", "accessible",
            [title |-> "Q4 Sales Performance Dashboard (Keyboard Accessible)"])

GenericAgentCard(cleanedCode) ==
    Element("Card", "agent_generic",
            [title |-> "ADK Agent Generated Component", text |-> cleanedCode])

\* An error card that cuts the code after 100 characters; C16 does not hold
\* of it.
ExecutionErrorCardShort(message, cleanedCode) ==
    Element("Card", "agent_exec_error",
            [title |-> "Component Execution Error",
             message |-> message,
             preview |-> substring(cleanedCode, 100)])

ExecutionErrorCard(message, cleanedCode) ==
    Element("Card", "agent_exec_error",
            [title |-> "Component Execution Error",
             message |-> message,
             preview |-> substring(cleanedCode, 400)])

DashboardFallback(message) ==
    Element("Card", "dashboard_exec_error",
            [title |-> "Business Intelligence Dashboard",
             note |-> "React.createElement execution failed, showing fallback",
             message |-> message,
             cities |-> << "New York", "San Francisco", "Seattle",
                           "Los Angeles", "Chicago" >>])

DashboardPlaceholder ==
    Element("Card", "dashboard_static",
            [title |-> "Business Intelligence Dashboard",
             note |-> "Dashboard component ready for enhancement"])

(***************************************************************************)
(* What one pass of the renderer yields: the tree it returns, or the       *)
(* exception that leaves it (escaped), and the executions of component     *)
(* text it made on the way.                                                *)
(***************************************************************************)
Rendered(tree, exec) ==
    [tree |-> tree, escaped |-> FALSE, where |-> "none", exec |-> exec]
Escaped(where, exec) ==
    [tree |-> NullTree, escaped |-> TRUE, where |-> where, exec |-> exec]

\* The parameter names of the functions built in the agent_response case
\* and in the dashboard case.
agentParams ==
    { "React", "Card", "Badge", "MapContainer", "TileLayer", "CircleMarker",
      "Popup", "MapPin", "Text" }

dashboardParams ==
    { "React", "Card", "Badge", "MapContainer", "TileLayer", "CircleMarker",
      "Popup" }

\* try { new Function(params, 'return ' + text)(...) }: the value, or the
\* error that the catch receives, and the record of the execution.
executeText(at, params, text) ==
    LET fn     == newFunction(params, text)
        called == callFunction(fn.value, [n \in params |-> n])
    IN  IF fn.thrown
        THEN [thrown |-> TRUE, error |-> fn.error,
              exec |-> << Execution(at, text, params, FALSE, FALSE, FALSE, { }) >>]
        ELSE IF called.thrown
        THEN [thrown |-> TRUE, error |-> called.error,
              exec |-> << Execution(at, text, params, FALSE, TRUE, TRUE, called.reached) >>]
        ELSE [thrown |-> FALSE, value |-> called.value,
              exec |-> << Execution(at, text, params, FALSE, TRUE, TRUE, called.reached) >>]

\* [parseFloat(c.split(',')[0].trim()), parseFloat(c.split(',')[1].trim())]:
\* a TypeError when the text between the brackets holds no comma.
centerThrows(parts) == Len(parts) < 2
centerOf(parts) == << parseFloat(parts[1]), parseFloat(parts[2]) >>

enhancedMapData(title, center, zoom, markers) ==
    LET regions(ms) == [i \in DOMAIN ms |-> regionOf(ms[i].label)]
        category(label, color, ms) ==
            [label |-> label, color |-> color, regions |-> regions(ms),
             zoom_bounds |-> [center |-> center, zoom |-> zoom + 1]]
    IN  [type |-> "interactive_map",
         title |-> title,
         map_config |-> [center |-> center, zoom |-> zoom, markers |-> markers],
         performance_categories |->
            [high   |-> category("High Performance", "#8b5cf6", slice(markers, 0, 2)),
             medium |-> category("Medium Performance", "#a855f7", slice(markers, 2, 4)),
             low    |-> category("Emerging Markets", "#c084fc",
                                 slice(markers, 4, Len(markers)))]]

(***************************************************************************)
(* case 'agent_response' / 'accessible_dashboard' of SafeComponentRenderer *)
(* The case is a list of format checks; each either returns (Some of the   *)
(* outcome of the pass) or falls through to the next (None).               *)
(***************************************************************************)
\* if (componentCode.includes('[fence]json') && componentCode.includes(
\* '"type": "interactive_map"')) { try { ... } catch { } }
InteractiveMapJson(componentCode) ==
    LET jsonMatch          ==
            firstMatch([k \in DOMAIN componentCode |-> jsonCapture(componentCode[k])])
        interactiveMapData == JSONparseObject(jsonMatch[1])
    IN  IF /\ includes(componentCode, JsonFence)
           /\ includes(componentCode, InteractiveMapKey)
           /\ jsonMatch # None
           /\ ~interactiveMapData.thrown
        THEN Some(Rendered(Element("InteractiveMapDisplay", "agent_json_map",
                                   [mapData |-> interactiveMapData.value]), << >>))
        ELSE None

isGeospatial(cleanedCode) ==
    \/ includes(cleanedCode, "MapContainer")
    \/ includes(cleanedCode, "territory")
    \/ includes(cleanedCode, "regional")
    \/ includes(cleanedCode, "geospatial")
    \/ lowerIncludes(cleanedCode, "texas")
    \/ lowerIncludes(cleanedCode, "california")
    \/ lowerIncludes(cleanedCode, "performance across")

\* if (geospatial content) { try { ... return <InteractiveMapDisplay/> }
\* catch { } }
GeospatialContent(cleanedCode) ==
    LET titleMatch     ==
            firstMatch([k \in DOMAIN cleanedCode |-> mapTitleCapture(cleanedCode[k])])
        mapCenterMatch ==
            firstMatch([k \in DOMAIN cleanedCode |-> mapCenterCapture(cleanedCode[k])])
        title  == IF titleMatch # None THEN titleMatch[1] ELSE "Regional Analysis"
        center == IF mapCenterMatch # None
                  THEN centerOf(mapCenterMatch[1].center)
                  ELSE << 398283, -985795 >>
        zoom   == IF mapCenterMatch # None THEN parseInt(mapCenterMatch[1].zoom) ELSE 4
        markerMatches == allMarkerMatches(cleanedCode)
        markers ==
            [i \in DOMAIN markerMatches |->
                MarkerData(centerOf(markerMatches[i].center), markerMatches[i].popup,
                           markerMatches[i].fillColor, parseInt(markerMatches[i].radius))]
        throws ==
            \/ mapCenterMatch # None /\ centerThrows(mapCenterMatch[1].center)
            \/ \E i \in DOMAIN markerMatches : centerThrows(markerMatches[i].center)
    IN  IF isGeospatial(cleanedCode) /\ ~throws
        THEN Some(Rendered(Element("InteractiveMapDisplay", "agent_geo_map",
                                   [mapData |-> enhancedMapData(title, center, zoom, markers)]),
                           << >>))
        ELSE None

\* if (cleanedCode.includes('React.createElement')) { ... }: the loading
\* card, the safe Leaflet map, the chart, or the execution of the text.
CreateElementFormat(cleanedCode, isClient) ==
    LET titleMatch     ==
            firstMatch([k \in DOMAIN cleanedCode |-> mapTitleCapture(cleanedCode[k])])
        mapCenterMatch ==
            firstMatch([k \in DOMAIN cleanedCode |-> mapCenterCapture(cleanedCode[k])])
        title  == IF titleMatch # None THEN titleMatch[1] ELSE "Regional Analysis"
        center == centerOf(mapCenterMatch[1].center)
        zoom   == IF mapCenterMatch # None THEN parseInt(mapCenterMatch[1].zoom) ELSE 4
        markerMatches == allMarkerMatches(cleanedCode)
        safeMarkers ==
            [i \in DOMAIN markerMatches |->
                MarkerNode([j \in DOMAIN markerMatches[i].center |->
                                parseFloat(markerMatches[i].center[j])],
                           parseInt(markerMatches[i].radius),
                           markerMatches[i].fillColor, markerMatches[i].popup)]
        chartTitle ==
            firstMatch([k \in DOMAIN cleanedCode |-> chartTitleCapture(cleanedCode[k])])
        dataMatch  ==
            firstMatch([k \in DOMAIN cleanedCode |-> chartDataCapture(cleanedCode[k])])
        parsedData == JSONparseArray(dataMatch[1])
        chartData  == IF dataMatch # None /\ ~parsedData.thrown
                      THEN parsedData.value
                      ELSE defaultSalesData
        run == executeText("agent_response", agentParams, cleanedCode)
    IN  IF ~includes(cleanedCode, "React.createElement") THEN None
        ELSE IF ~isClient
        THEN Some(Rendered(LoadingCard("agent_response.ssr",
                                       "Loading Interactive Map..."), << >>))
        ELSE IF includes(cleanedCode, "MapContainer") /\ includes(cleanedCode, "TileLayer")
        THEN IF mapCenterMatch # None /\ centerThrows(mapCenterMatch[1].center)
             THEN Some(Escaped("switch", << >>))
             ELSE Some(Rendered(Element("Card", "agent_safe_map",
                                        [title   |-> title,
                                         center  |-> IF mapCenterMatch # None THEN center
                                                     ELSE << 398283, -985795 >>,
                                         zoom    |-> zoom,
                                         markers |-> safeMarkers]), << >>))
        ELSE IF includes(cleanedCode, "LineChart") \/ includes(cleanedCode, "BarChart")
        THEN Some(Rendered(Element("RechartsSalesTrend", "agent_chart",
                                   [data   |-> chartData,
                                    title  |-> IF chartTitle # None THEN chartTitle[1]
                                               ELSE "Chart Analysis",
                                    period |-> "Q4"]), << >>))
        ELSE IF run.thrown
        THEN Some(Rendered(ExecutionErrorCard(run.error, cleanedCode), run.exec))
        ELSE Some(Rendered(run.value, run.exec))

AccessibilityComponent(cleanedCode, componentType) ==
    IF \/ includes(cleanedCode, "WCAG")
       \/ includes(cleanedCode, "accessibility")
       \/ includes(cleanedCode, "Keyboard")
       \/ componentType = "accessible_dashboard"
    THEN Some(Rendered(AccessibleCard, << >>))
    ELSE None

CleanJsx(cleanedCode) ==
    IF startsWith(cleanedCode, "<Card") /\ includes(cleanedCode, "</Card>")
    THEN Some(Rendered(Element("div", "agent_inner_html", [html |-> cleanedCode]), << >>))
    ELSE None

\* The first of the outcomes that is not None.
RECURSIVE firstSome(_)
firstSome(options) ==
    IF Head(options) # None THEN Head(options)[1] ELSE firstSome(Tail(options))

\* The case with the call-tree check moved to the front; C8 does not hold
\* of it.
AgentResponseCallTreeFirst(componentCode, componentType, isClient) ==
    LET cleanedCode == removeFences(componentCode)
    IN  firstSome(<< CreateElementFormat(cleanedCode, isClient),
                     InteractiveMapJson(componentCode),
                     GeospatialContent(cleanedCode),
                     AccessibilityComponent(cleanedCode, componentType),
                     CleanJsx(cleanedCode),
                     Some(Rendered(GenericAgentCard(cleanedCode), << >>)) >>)

AgentResponse(componentCode, componentType, isClient) ==
    LET cleanedCode == removeFences(componentCode)
    IN  firstSome(<< InteractiveMapJson(componentCode),
                     GeospatialContent(cleanedCode),
                     CreateElementFormat(cleanedCode, isClient),
                     AccessibilityComponent(cleanedCode, componentType),
                     CleanJsx(cleanedCode),
                     Some(Rendered(GenericAgentCard(cleanedCode), << >>)) >>)

(***************************************************************************)
(* case 'comprehensive_dashboard' / 'comprehensive_business_dashboard' /   *)
(* 'business_intelligence_dashboard' of SafeComponentRenderer              *)
(***************************************************************************)
\* The dashboard case executing the text whatever it holds; C5 does not
\* hold of it.
ComprehensiveDashboardUnconditional(componentCode, isClient) ==
    LET dashboardCode == removeFences(componentCode)
        run == executeText("comprehensive_dashboard", dashboardParams, dashboardCode)
    IN  IF ~isClient
        THEN Rendered(LoadingCard("dashboard.ssr",
                                  "Loading Business Intelligence Dashboard..."), << >>)
        ELSE IF run.thrown
        THEN Rendered(DashboardFallback(run.error), run.exec)
        ELSE Rendered(run.value, run.exec)

ComprehensiveDashboard(componentCode, isClient) ==
    LET dashboardCode == removeFences(componentCode)
        run == executeText("comprehensive_dashboard", dashboardParams, dashboardCode)
    IN  IF ~isClient
        THEN Rendered(LoadingCard("dashboard.ssr",
                                  "Loading Business Intelligence Dashboard..."), << >>)
        ELSE IF includes(dashboardCode, "React.createElement")
        THEN IF run.thrown
             THEN Rendered(DashboardFallback(run.error), run.exec)
             ELSE Rendered(run.value, run.exec)
        ELSE Rendered(DashboardPlaceholder, << >>)

(***************************************************************************)
(* SafeComponentRenderer, current revision: the extraction step and the    *)
(* switch on componentType.                                                *)
(***************************************************************************)
SafeComponentRenderer(componentCode, componentType, isClient) ==
    LET x == Extraction(componentCode, componentType)
        extractedData   == x.extractedData[1]
        extractedTitle  == x.extractedTitle
        extractedPeriod == x.extractedPeriod
    IN  IF x.threw THEN Escaped("extraction", << >>)
        ELSE
        CASE componentType \in { "trend_line", "sales_trend" } ->
                Rendered(Element("RechartsSalesTrend", "trend_line",
                                 [data   |-> extractedData,
                                  title  |-> OrElse(extractedTitle, "Sales Trend"),
                                  period |-> OrElse(extractedPeriod, "Q4")]), << >>)
          [] componentType \in { "metric_card", "kpi" } ->
                Rendered(Element("RechartsMetricCard", "metric_card",
                                 [value |-> "$47.2K", label |-> "Monthly Revenue"]), << >>)
          [] componentType \in { "comparison_bar", "comparison_chart" } ->
                Rendered(Element("RechartsComparison", "comparison_bar",
                                 [data  |-> extractedData,
                                  title |-> OrElse(extractedTitle, "Performance Comparison")]),
                         << >>)
          [] componentType = "revenue_trend" ->
                Rendered(Element("RechartsSalesTrend", "revenue_trend",
                                 [data   |-> extractedData,
                                  title  |-> OrElse(extractedTitle, "Revenue Analysis"),
                                  period |-> OrElse(extractedPeriod, "6 Months")]), << >>)
          [] componentType = "regional_heatmap" ->
                Rendered(RegionalHeatmap(isClient), << >>)
          [] componentType \in { "agent_response", "accessible_dashboard" } ->
                AgentResponse(componentCode, componentType, isClient)
          [] componentType \in { "comprehensive_dashboard",
                                 "comprehensive_business_dashboard",
                                 "business_intelligence_dashboard" } ->
                ComprehensiveDashboard(componentCode, isClient)
          [] componentType \in { "ytd_metrics", "ytd_dashboard", "kpi_dashboard" } ->
                Rendered(YtdMetrics, << >>)
          [] componentType \in { "ranking_table", "rankings", "top_performers" } ->
                Rendered(RankingTable, << >>)
          [] OTHER ->
                Rendered(DefaultCard(componentType), << >>)

(***************************************************************************)
(* SafeComponentRenderer, earlier revision (the Tremor renderer): it       *)
(* executes the text, as a createElement expression or as the body of an   *)
(* immediately invoked arrow function, inside one try block.               *)
(***************************************************************************)
legacyParams ==
    { "React", "Card", "LineChart", "BarChart", "Metric", "Text", "Badge",
      "Flex", "Title", "Subtitle", "TrendingUp", "BarChart3", "MapPin",
      "MapContainer", "TileLayer", "CircleMarker", "Popup" }

\* The values passed for the parameters: placeholders for the Leaflet
\* components until the component runs on the client.
legacyArgs(isClient) ==
    [n \in legacyParams |->
        IF isClient THEN n
        ELSE CASE n = "MapContainer" -> "MapContainerPlaceholder"
               [] n = "TileLayer"    -> "TileLayerPlaceholder"
               [] n = "CircleMarker" -> "CircleMarkerPlaceholder"
               [] n = "Popup"        -> "PopupPlaceholder"
               [] OTHER              -> n]

\* /\(\(\)\s*=>\s*{([\s\S]*?)}\)\(\)/ , capture 1: the statements between
\* the braces ("return document.title").
iifeCapture(f) ==
    CASE f = "IIFE" -> Some(<< "IIFE.body" >>)
      [] OTHER      -> None

LegacyErrorCard(message, componentCode) ==
    Element("Card", "legacy_error",
            [title |-> "Component Execution Error",
             message |-> message,
             text |-> componentCode])

LegacyUnrecognizedCard(componentCode, componentType) ==
    Element("Card", "legacy_unrecognized",
            [title   |-> "Unrecognized Component Format",
             heading |-> CASE componentType = "sales_trend" -> "Sales Trend Analysis"
                           [] componentType = "metric_card" -> "Key Metrics"
                           [] componentType = "comparison_chart" -> "Performance Comparison"
                           [] OTHER -> "Business Component",
             format  |-> IF includes(componentCode, "React.createElement")
                         THEN "React.createElement"
                         ELSE IF includes(componentCode, "(() => {") THEN "IIFE"
                         ELSE "Unknown",
             length  |-> textLength(componentCode),
             preview |-> substring(componentCode, 100)])

SafeComponentRendererLegacy(componentCode, componentType, isClient) ==
    LET \* no fragment is a JSON string literal, so the text is used as it is
        cleanCode == componentCode
        \* new Function(`return (${cleanCode})`)
        valid  == parsesAsExpression(cleanCode)
        fn     == newFunction(legacyParams, cleanCode)
        called == callFunction(fn.value, legacyArgs(isClient))
        \* the IIFE format
        iifeMatch  ==
            firstMatch([k \in DOMAIN componentCode |-> iifeCapture(componentCode[k])])
        iifeFn     == [params |-> legacyParams, body |-> iifeMatch[1]]
        iifeCalled == callFunction(iifeFn, legacyArgs(isClient))
    IN  IF includes(componentCode, "React.createElement")
        THEN IF ~valid
             THEN Rendered(LegacyErrorCard("Invalid React.createElement syntax",
                                           componentCode),
                           << Execution("legacy_create_element", cleanCode, legacyParams,
                                        TRUE, FALSE, FALSE, { }) >>)
             ELSE IF called.thrown
             THEN Rendered(LegacyErrorCard(called.error, componentCode),
                           << Execution("legacy_create_element", cleanCode, legacyParams,
                                        TRUE, TRUE, TRUE, called.reached) >>)
             ELSE Rendered(called.value,
                           << Execution("legacy_create_element", cleanCode, legacyParams,
                                        TRUE, TRUE, TRUE, called.reached) >>)
        ELSE IF iifeMatch # None
        THEN IF iifeCalled.thrown
             THEN Rendered(LegacyErrorCard(iifeCalled.error, componentCode),
                           << Execution("legacy_iife", iifeMatch[1], legacyParams,
                                        FALSE, TRUE, TRUE, iifeCalled.reached) >>)
             ELSE Rendered(iifeCalled.value,
                           << Execution("legacy_iife", iifeMatch[1], legacyParams,
                                        FALSE, TRUE, TRUE, iifeCalled.reached) >>)
        ELSE Rendered(LegacyUnrecognizedCard(componentCode, componentType), << >>)

(***************************************************************************)
(* The state of one mounted SafeComponentRenderer.                         *)
(***************************************************************************)
VARIABLES
    revision,          \* which revision of the renderer is mounted
    componentCode,     \* prop
    componentType,     \* prop
    isClient,          \* useState(false), set by the effect after mount
    RenderedComponent, \* the tree of the last render pass
    thrown,            \* "none", or where the exception of the last pass arose
    executions,        \* the executions of component text of the last pass
    extractedData,     \* the locals of the extraction step of the last pass
    extractedTitle,
    extractedPeriod

rendererVars ==
    << revision, componentCode, componentType, isClient, RenderedComponent,
       thrown, executions, extractedData, extractedTitle, extractedPeriod >>

\* No SafeComponentRenderer is mounted.
RendererIdle ==
    /\ revision = "none"
    /\ componentCode = << >>
    /\ componentType = "none"
    /\ isClient = FALSE
    /\ RenderedComponent = NullTree
    /\ thrown = "none"
    /\ executions = << >>
    /\ extractedData = None
    /\ extractedTitle = None
    /\ extractedPeriod = None

(***************************************************************************)
(* The state of one mounted chart primitive (RechartsComponents.tsx and    *)
(* the Tremor components).                                                 *)
(***************************************************************************)
VARIABLES
    primitive,         \* which chart component is mounted, or "none"
    dataProp,          \* its data prop
    titleProp,         \* its title prop
    chart              \* what it renders: heading and the data of its chart

chartVars == << primitive, dataProp, titleProp, chart >>

\* A prop that was not passed (undefined), null, or a value.
Undefined == [kind |-> "undefined"]
Null == [kind |-> "null"]
Value(v) == [kind |-> "value", value |-> v]

ChartsIdle ==
    /\ primitive = "none"
    /\ dataProp = Undefined
    /\ titleProp = Undefined
    /\ chart = Null

(***************************************************************************)
(* The state of the route handler of /api/analyze for one request.         *)
(***************************************************************************)
VARIABLES
    routeVersion,      \* which revision of route.ts serves, or "none"
    adkServer,         \* how the ADK server answers the handler's fetch
    requestBody,       \* the body of the request
    response,          \* the response: status and body
    agentsCalled       \* the agents called for the request, in order

apiVars == << routeVersion, adkServer, requestBody, response, agentsCalled >>

ApiIdle ==
    /\ routeVersion = "none"
    /\ adkServer = "none"
    /\ requestBody = Null
    /\ response = Null
    /\ agentsCalled = << >>

(***************************************************************************)
(* The page GenerativeUIDashboard with its QueryHistory: the state of the  *)
(* two components, the calls of handleBusinessQuery, started in this       *)
(* order, and the calls whose fetch has settled, in the order of settling. *)
(***************************************************************************)
VARIABLES
    components,          \* the component list shown
    isLoading,
    query,               \* the value of the input
    performanceMetrics,
    agentStatuses,
    history,             \* the items of QueryHistory, newest first
    calls,
    arrivals

pageVars ==
    << components, isLoading, query, performanceMetrics, agentStatuses, history,
       calls, arrivals >>

PageIdle ==
    /\ components = << >>
    /\ isLoading = FALSE
    /\ query = << >>
    /\ performanceMetrics = Null
    /\ agentStatuses = << >>
    /\ history = << >>
    /\ calls = << >>
    /\ arrivals = << >>

(***************************************************************************)
(* The component InteractiveMapDisplay: its prop, its state, the Leaflet   *)
(* map behind mapRef with the view it was last flown to, and the targets   *)
(* of the flyTo callbacks of setTimeout that have not run yet.             *)
(***************************************************************************)
VARIABLES
    mapData,             \* the prop, or Null before the component is rendered
    mapIsClient,         \* the state isClient of InteractiveMapDisplay
    currentCenter,
    currentZoom,
    selectedCategory,    \* None for null
    filteredMarkers,
    statusMessage,
    mapRef,              \* None, or Some of the view the map was last flown to
    flyTimers

mapVars ==
    << mapData, mapIsClient, currentCenter, currentZoom, selectedCategory,
       filteredMarkers, statusMessage, mapRef, flyTimers >>

MapIdle ==
    /\ mapData = Null
    /\ mapIsClient = FALSE
    /\ currentCenter = << >>
    /\ currentZoom = 0
    /\ selectedCategory = None
    /\ filteredMarkers = << >>
    /\ statusMessage = << >>
    /\ mapRef = None
    /\ flyTimers = << >>

vars == << rendererVars, chartVars, apiVars, pageVars, mapVars >>

Revisions == { "legacy", "current" }

\* One render pass: useMemo recomputes the tree, React renders it.
\* A render pass whose title pattern keeps its position between passes (a
\* pattern object with the g flag that is shared by the passes): the second
\* pass finds no title.  C13 does not hold of it.
RenderWithStickyPattern(rev, code, type, client) ==
    LET r == IF rev = "legacy"
             THEN SafeComponentRendererLegacy(code, type, client)
             ELSE SafeComponentRenderer(code, type, client)
        x == Extraction(code, type)
    IN  [tree  |-> r.tree,
         thrown |-> IF r.escaped THEN r.where
                    ELSE IF childThrows(r.tree) THEN "child"
                    ELSE "none",
         exec  |-> r.exec,
         data  |-> IF rev = "legacy" \/ x.threw THEN None ELSE x.extractedData,
         title |-> IF rev = "legacy" \/ client THEN None ELSE x.extractedTitle,
         period |-> IF rev = "legacy" THEN None ELSE x.extractedPeriod]

Render(rev, code, type, client) ==
    LET r == IF rev = "legacy"
             THEN SafeComponentRendererLegacy(code, type, client)
             ELSE SafeComponentRenderer(code, type, client)
        x == Extraction(code, type)
    IN  [tree  |-> r.tree,
         thrown |-> IF r.escaped THEN r.where
                    ELSE IF childThrows(r.tree) THEN "child"
                    ELSE "none",
         exec  |-> r.exec,
         data  |-> IF rev = "legacy" \/ x.threw THEN None ELSE x.extractedData,
         title |-> IF rev = "legacy" THEN None ELSE x.extractedTitle,
         period |-> IF rev = "legacy" THEN None ELSE x.extractedPeriod]

Shows(pass) ==
    /\ RenderedComponent = pass.tree
    /\ thrown = pass.thrown
    /\ executions = pass.exec
    /\ extractedData = pass.data
    /\ extractedTitle = pass.title
    /\ extractedPeriod = pass.period

ShowsNext(pass) ==
    /\ RenderedComponent' = pass.tree
    /\ thrown' = pass.thrown
    /\ executions' = pass.exec
    /\ extractedData' = pass.data
    /\ extractedTitle' = pass.title
    /\ extractedPeriod' = pass.period

\* The component is mounted with its props; the first pass runs with
\* isClient = false.
Init ==
    /\ revision \in Revisions
    /\ componentCode \in Codes
    /\ componentType \in ComponentTypes
    /\ isClient = FALSE
    /\ Shows(Render(revision, componentCode, componentType, FALSE))
    /\ ChartsIdle
    /\ ApiIdle
    /\ PageIdle
    /\ MapIdle

\* useEffect(() => setIsClient(true), []) runs once the first pass has
\* been committed; the changed state renders the component again.
ClientEffect ==
    /\ ~isClient
    /\ thrown = "none"
    /\ isClient' = TRUE
    /\ ShowsNext(Render(revision, componentCode, componentType, TRUE))
    /\ UNCHANGED << revision, componentCode, componentType >>
    /\ UNCHANGED << chartVars, apiVars, pageVars, mapVars >>

Next == ClientEffect

Spec == Init /\ [][Next]_vars

(***************************************************************************)
(* The chart primitives.  A default value of a parameter replaces a prop   *)
(* that is undefined, and only that: null and the empty array are kept.    *)
(***************************************************************************)
\* Longest data prop, in points.
MaxPoints == 2

Points ==
    { [month |-> "Jan", value |-> 1200],
      [category |-> "Product A", value |-> 2400],
      [month |-> "Feb", Sales |-> 1350] }

DataProps == { Undefined, Null } \cup { Value(d) : d \in SeqsUpTo(Points, MaxPoints) }

TitleProps == { Undefined, Value("Q1 Sales") }

Primitives ==
    { "RechartsSalesTrend", "RechartsComparison", "TremorSalesTrend",
      "TremorComparisonChart" }

\* The sample data of the Tremor components.
tremorDefaultSalesData ==
    << [month |-> "Jan", Sales |-> 1200, Revenue |-> 2400],
       [month |-> "Feb", Sales |-> 1350, Revenue |-> 2100],
       [month |-> "Mar", Sales |-> 1580, Revenue |-> 2800],
       [month |-> "Apr", Sales |-> 1420, Revenue |-> 2300],
       [month |-> "May", Sales |-> 1650, Revenue |-> 3100],
       [month |-> "Jun", Sales |-> 1780, Revenue |-> 3400] >>

tremorDefaultProductData ==
    << [product |-> "Product A", Sales |-> 2400, Units |-> 240],
       [product |-> "Product B", Sales |-> 1800, Units |-> 180],
       [product |-> "Product C", Sales |-> 3200, Units |-> 320],
       [product |-> "Product D", Sales |-> 1600, Units |-> 160] >>

\* function f({ p = dflt }): the default is taken for undefined only
defaultParam(prop, dflt) == IF prop = Undefined THEN Value(dflt) ELSE prop

\* { ...item, Sales: item.value }
withSales(item) ==
    [k \in DOMAIN item \cup { "Sales" } |-> IF k = "Sales" THEN item.value ELSE item[k]]

RechartsSalesTrend(data, title, period) ==
    [heading |-> << defaultParam(title, "Sales Trend"), defaultParam(period, "Q4") >>,
     chart   |-> "LineChart",
     index   |-> "month",
     data    |-> defaultParam(data, defaultSalesData)]

RechartsComparison(data, title) ==
    [heading |-> << defaultParam(title, "Product Performance Comparison") >>,
     chart   |-> "BarChart",
     index   |-> "category",
     data    |-> defaultParam(data, defaultProductData)]

TremorSalesTrend(data, title, period) ==
    LET d == defaultParam(data, tremorDefaultSalesData)
        transformedData ==
            IF d.kind = "value"
            THEN [i \in DOMAIN d.value |->
                    IF "value" \in DOMAIN d.value[i] /\ "Sales" \notin DOMAIN d.value[i]
                    THEN withSales(d.value[i])
                    ELSE d.value[i]]
            ELSE tremorDefaultSalesData
    IN  [heading |-> << defaultParam(title, "Sales Trend"), defaultParam(period, "Q4") >>,
         chart   |-> "LineChart",
         index   |-> "month",
         data    |-> Value(transformedData)]

TremorComparisonChart(data, title) ==
    LET d == defaultParam(data, tremorDefaultProductData)
        transformedData ==
            IF d.kind = "value"
            THEN [i \in DOMAIN d.value |->
                    IF "category" \in DOMAIN d.value[i] /\ "value" \in DOMAIN d.value[i]
                    THEN [product |-> d.value[i].category, Sales |-> d.value[i].value]
                    ELSE IF "value" \in DOMAIN d.value[i]
                            /\ "Sales" \notin DOMAIN d.value[i]
                    THEN withSales(d.value[i])
                    ELSE d.value[i]]
            ELSE tremorDefaultProductData
    IN  [heading |-> << defaultParam(title, "Product Performance Comparison") >>,
         chart   |-> "BarChart",
         index   |-> "product",
         data    |-> Value(transformedData)]

\* One render of a chart primitive with its props.
renderPrimitive(p, data, title) ==
    CASE p = "RechartsSalesTrend"    -> RechartsSalesTrend(data, title, Undefined)
      [] p = "RechartsComparison"    -> RechartsComparison(data, title)
      [] p = "TremorSalesTrend"      -> TremorSalesTrend(data, title, Undefined)
      [] p = "TremorComparisonChart" -> TremorComparisonChart(data, title)

\* The sample dataset of a primitive.
sampleData(p) ==
    CASE p = "RechartsSalesTrend"    -> defaultSalesData
      [] p = "RechartsComparison"    -> defaultProductData
      [] p = "TremorSalesTrend"      -> tremorDefaultSalesData
      [] p = "TremorComparisonChart" -> tremorDefaultProductData

\* The points the chart of a primitive draws: none for null.
shownPoints(c) == IF c.data.kind = "value" THEN c.data.value ELSE << >>

InitCharts == RendererIdle /\ ChartsIdle /\ ApiIdle /\ PageIdle /\ MapIdle

\* A parent renders the primitive with a data and a title prop.
MountChart(p, data, title) ==
    /\ primitive = "none"
    /\ primitive' = p
    /\ dataProp' = data
    /\ titleProp' = title
    /\ chart' = renderPrimitive(p, data, title)
    /\ UNCHANGED << rendererVars, apiVars, pageVars, mapVars >>

\* The parent renders it again with other props.
UpdateChartProps(data, title) ==
    /\ primitive # "none"
    /\ << data, title >> # << dataProp, titleProp >>
    /\ dataProp' = data
    /\ titleProp' = title
    /\ chart' = renderPrimitive(primitive, data, title)
    /\ UNCHANGED << primitive, rendererVars, apiVars, pageVars, mapVars >>

UnmountChart ==
    /\ primitive # "none"
    /\ primitive' = "none"
    /\ dataProp' = Undefined
    /\ titleProp' = Undefined
    /\ chart' = Null
    /\ UNCHANGED << rendererVars, apiVars, pageVars, mapVars >>

NextCharts ==
    \/ \E p \in Primitives, data \in DataProps, title \in TitleProps :
          MountChart(p, data, title)
    \/ \E data \in DataProps, title \in TitleProps : UpdateChartProps(data, title)
    \/ UnmountChart

SpecCharts == InitCharts /\ [][NextCharts]_vars

(***************************************************************************)
(* The route /api/analyze.  A query string is the sequence of its words,   *)
(* written with one space between them: the empty sequence is the empty    *)
(* string.  [quote] stands for a double quote, [backslash] for a           *)
(* backslash.  The source holds two revisions of the route.                *)
(***************************************************************************)
\* Longest query, in words.
MaxWords == 2

Words ==
    { "Sales", "trends", "KPI", "metrics", "compare", "comparison", "roadmap",
      "Regional", "territory", "locations", "geospatial", "hello",
      "[quote]Q4[quote]" }

Queries == SeqsUpTo(Words, MaxWords)

RouteVersions == { "first", "second" }

\* String.prototype.toLowerCase, word by word
toLowerCase(word) ==
    CASE word = "Sales"    -> "sales"
      [] word = "KPI"      -> "kpi"
      [] word = "Regional" -> "regional"
      [] word = "Show"     -> "show"
      [] word = "Hello"    -> "hello"
      [] word = "Q4"       -> "q4"
      [] OTHER             -> word

\* The keywords of the route that are substrings of a lower-case word.
keywordsOf(lower) ==
    CASE lower = "sales"      -> { "sales" }
      [] lower = "trends"     -> { "trend" }
      [] lower = "kpi"        -> { "kpi" }
      [] lower = "metrics"    -> { "metric" }
      [] lower = "compare"    -> { "compare" }
      [] lower = "comparison" -> { "comparison" }
      [] lower = "roadmap"    -> { "map" }
      [] lower = "regional"   -> { "regional" }
      [] lower = "territory"  -> { "territory" }
      [] lower = "locations"  -> { "location" }
      [] lower = "geospatial" -> { "geospatial" }
      [] OTHER                -> { }

\* query.toLowerCase().includes(keyword): no keyword holds a space
queryIncludes(q, keyword) ==
    \E i \in DOMAIN q : keyword \in keywordsOf(toLowerCase(q[i]))

\* query.replace(/"/g, '\\"')
escapeQuotes(q) ==
    [i \in DOMAIN q |->
        IF q[i] = "[quote]Q4[quote]"
        THEN "[backslash][quote]Q4[backslash][quote]"
        ELSE q[i]]

\* The keyword groups of a revision, in the order of their tests.
keywordGroups(version) ==
    << [keywords |-> { "trend", "sales" }, agent |-> "chart_generation_agent",
        component_type |-> "trend_line",
        business_context |-> "Sales performance trending analysis"],
       [keywords |-> { "metric", "kpi" }, agent |-> "chart_generation_agent",
        component_type |-> "metric_card",
        business_context |-> "Key performance indicator display"],
       [keywords |-> { "compare", "comparison" }, agent |-> "chart_generation_agent",
        component_type |-> "comparison_bar",
        business_context |-> "Comparative analysis visualization"] >>
    \o (IF version = "second"
        THEN << [keywords |-> { "regional", "territory", "map", "location",
                                "geospatial" },
                 agent |-> "geospatial_agent",
                 component_type |-> "regional_heatmap",
                 business_context |->
                   "Regional sales performance with interactive map visualization"] >>
        ELSE << >>)

matchesCaseSensitive(group, q) ==
    \E keyword \in group.keywords : \E i \in DOMAIN q : keyword \in keywordsOf(q[i])

matches(group, q) == \E keyword \in group.keywords : queryIncludes(q, keyword)

\* The component a matched group pushes: its code is a constant template.
groupComponent(version, group) ==
    [agent |-> group.agent,
     component_type |-> group.component_type,
     component_code |-> [template |-> group.component_type, revision |-> version,
                         understood |-> << >>],
     business_context |-> group.business_context]

\* The component pushed when results is empty: its code embeds the query.
generalResponse(version, q) ==
    [agent |-> "chart_generation_agent",
     component_type |-> "general_response",
     component_code |->
        [template |-> "general_response", revision |-> version,
         understood |-> IF version = "second" THEN escapeQuotes(q) ELSE q],
     business_context |-> "General business intelligence query"]

RECURSIVE pushMatched(_, _, _)
\* The pushes of the groups from the k-th on, in order.
pushMatched(version, q, k) ==
    IF k > Len(keywordGroups(version)) THEN << >>
    ELSE (IF matches(keywordGroups(version)[k], q)
          THEN << groupComponent(version, keywordGroups(version)[k]) >>
          ELSE << >>)
         \o pushMatched(version, q, k + 1)

simulateRootAgentWithoutDefault(version, q) == pushMatched(version, q, 1)

simulateRootAgent(version, q) ==
    LET results == pushMatched(version, q, 1)
    IN  IF Len(results) = 0 THEN << generalResponse(version, q) >> ELSE results

\* What the fetch of the ADK server can come to.
AdkOutcomes == { "components", "empty", "no components", "not ok", "rejected" }

\* The components an ADK server answers with.
adkComponents(outcome) ==
    IF outcome = "components"
    THEN << [agent |-> "root_agent", component_type |-> "trend_line",
             component_code |-> [template |-> "adk", revision |-> "first",
                                 understood |-> << >>],
             business_context |-> "ADK"] >>
    ELSE << >>

callRealADKAgentsWithoutFallback(version, q, adk) ==
    IF version = "second"
    THEN [components |-> simulateRootAgent(version, q),
          agents |-> << "simulateRootAgent" >>]
    ELSE [components |-> adkComponents(adk), agents |-> << "ADK server" >>]

\* The components returned and the agents called, in order.
callRealADKAgents(version, q, adk) ==
    IF version = "second"
    THEN [components |-> simulateRootAgent(version, q),
          agents |-> << "simulateRootAgent" >>]
    ELSE IF adk \in { "components", "empty" }
    THEN [components |-> adkComponents(adk), agents |-> << "ADK server" >>]
    ELSE [components |-> simulateRootAgent(version, q),
          agents |-> << "ADK server", "simulateRootAgent" >>]

\* The values the query of a body can have.
String(words) == [type |-> "string", words |-> words]
QueryValues ==
    { [type |-> "undefined"], [type |-> "null"], [type |-> "number", number |-> 0],
      [type |-> "number", number |-> 42], [type |-> "object"] }
    \cup { String(q) : q \in Queries }

\* The bodies of a request: not JSON, or a JSON value.
RequestBodies ==
    { [json |-> "malformed"], [json |-> "null"], [json |-> "number"] }
    \cup { [json |-> "object", query |-> v] : v \in QueryValues }

falsyNullish(v) == v.type \in { "undefined", "null" }

\* !query
falsy(v) ==
    \/ v.type \in { "undefined", "null" }
    \/ v.type = "number" /\ v.number = 0
    \/ v.type = "string" /\ Len(v.words) = 0

agent_trace ==
    << "Root agent analyzed query", "Delegated to chart_generation_agent",
       "Generated UI component tools", "Returned JSX components" >>

\* The answer of the handler and the agents it called.
POST(version, body, adk) ==
    IF body.json \in { "malformed", "null" }
    THEN [status |-> 500,
          body |-> [error |-> "Failed to process business query",
                    details |-> IF body.json = "malformed" THEN "SyntaxError"
                                ELSE "TypeError"],
          agents |-> << >>]
    ELSE LET q == IF body.json = "object" THEN body.query
                      ELSE [type |-> "undefined"]
         IN  IF falsy(q) \/ q.type # "string"
             THEN [status |-> 400,
                   body |-> [error |-> "Query is required and must be a string"],
                   agents |-> << >>]
             ELSE LET called == callRealADKAgents(version, q.words, adk)
                  IN  [status |-> 200,
                       body |-> [success |-> TRUE,
                                 query |-> q.words,
                                 components |-> called.components,
                                 total_components |-> Len(called.components),
                                 processing_time |-> "1.2s",
                                 agent_trace |-> agent_trace],
                       agents |-> called.agents]

GET ==
    [status |-> 200,
     body |-> [message |-> "ADK Agent API Bridge", status |-> "active"],
     agents |-> << >>]

InitApi ==
    /\ RendererIdle /\ ChartsIdle /\ PageIdle /\ MapIdle
    /\ routeVersion \in RouteVersions
    /\ adkServer = "none"
    /\ requestBody = Null
    /\ response = Null
    /\ agentsCalled = << >>

\* One POST request, answered: the handler keeps nothing between requests.
Post(body, adk) ==
    /\ response = Null
    /\ requestBody' = Value(body)
    /\ adkServer' = adk
    /\ response' = [status |-> POST(routeVersion, body, adk).status,
                    body |-> POST(routeVersion, body, adk).body]
    /\ agentsCalled' = POST(routeVersion, body, adk).agents
    /\ UNCHANGED << routeVersion, rendererVars, chartVars, pageVars, mapVars >>

\* One GET request, answered.
Get ==
    /\ response = Null
    /\ requestBody' = Null
    /\ response' = [status |-> GET.status, body |-> GET.body]
    /\ agentsCalled' = GET.agents
    /\ UNCHANGED << routeVersion, adkServer, rendererVars, chartVars, pageVars, mapVars >>

\* The answer is sent and the invocation ends.
Sent ==
    /\ response # Null
    /\ requestBody' = Null
    /\ response' = Null
    /\ agentsCalled' = << >>
    /\ UNCHANGED << routeVersion, adkServer, rendererVars, chartVars, pageVars, mapVars >>

NextApi ==
    \/ \E body \in RequestBodies, adk \in AdkOutcomes : Post(body, adk)
    \/ Get
    \/ Sent

SpecApi == InitApi /\ [][NextApi]_vars

(***************************************************************************)
(* The page.  A call of handleBusinessQuery is a record: the query it was  *)
(* called with, the state of its fetch, how the ADK server answered the    *)
(* route for it, its timers that have not fired yet, in the order they are *)
(* due, and the number of calls that had started when its fetch settled.   *)
(* [space] stands for white space at an end of the input.  The id and the  *)
(* timestamp of a history item and the processing time of the metrics are  *)
(* clock readings and are left out.                                        *)
(***************************************************************************)
\* Most calls of handleBusinessQuery in one behaviour.
MaxCalls == 2

AgentNames == { "Chart Agent", "Geospatial Agent", "Accessibility Agent" }

\* prev.map(agent => ({ ...agent, status }))
allAgents(status) == [agent \in AgentNames |-> status]

exampleQueries == { << "Show", "me", "sales", "trends", "for", "Q4" >> }

\* What the user types into the input.
TypedValues == { << "hello", "[space]" >> }

RECURSIVE trimStart(_)
trimStart(value) ==
    IF value # << >> /\ Head(value) = "[space]" THEN trimStart(Tail(value)) ELSE value

RECURSIVE trimEnd(_)
trimEnd(value) ==
    IF value # << >> /\ value[Len(value)] = "[space]"
    THEN trimEnd(SubSeq(value, 1, Len(value) - 1))
    ELSE value

\* String.prototype.trim
trimValue(value) == trimEnd(trimStart(value))

\* What localStorage holds under query-history when the page is opened.
SavedHistories ==
    { << >>, << [query |-> << "hello" >>, componentCount |-> 1, isFavorite |-> FALSE] >> }

HistoryLimit == 10

lowerCaseQuery(q) == [i \in DOMAIN q |-> toLowerCase(q[i])]

keptItems(prev, q) ==
    SelectSeq(prev, LAMBDA item : lowerCaseQuery(item.query) # lowerCaseQuery(q))

\* The history after addToHistory(q, componentCount).
addToHistory(prev, q, componentCount) ==
    LET newItem == [query |-> trimValue(q), componentCount |-> componentCount,
                    isFavorite |-> FALSE]
        all == << newItem >> \o keptItems(prev, q)
    IN  SubSeq(all, 1, IF Len(all) < HistoryLimit THEN Len(all) ELSE HistoryLimit)

componentId(index) ==
    CASE index = 0 -> "comp-0"
      [] index = 1 -> "comp-1"
      [] index = 2 -> "comp-2"
      [] index = 3 -> "comp-3"

GeneratedComponentsReversed(resultComponents) ==
    [i \in DOMAIN resultComponents |->
        LET comp == resultComponents[Len(resultComponents) + 1 - i]
        IN  [id |-> componentId(i - 1),
             agent_name |-> comp.agent,
             component_code |-> comp.component_code,
             business_context |-> comp.business_context,
             component_type |-> comp.component_type]]

\* result.components.map((comp, index) => ({ id: comp-index, ... }))
GeneratedComponents(resultComponents) ==
    [i \in DOMAIN resultComponents |->
        [id |-> componentId(i - 1),
         agent_name |-> resultComponents[i].agent,
         component_code |-> resultComponents[i].component_code,
         business_context |-> resultComponents[i].business_context,
         component_type |-> resultComponents[i].component_type]]

\* The list set in the catch block.
errorComponents ==
    << [id |-> "error",
        agent_name |-> "system",
        component_code |-> [template |-> "Error processing query", revision |-> "page",
                            understood |-> << >>],
        business_context |-> "System error",
        component_type |-> "error"] >>

\* JSON.stringify({ query: inputQuery })
fetchBody(inputQuery) == [json |-> "object", query |-> String(inputQuery)]

\* How the ADK server answers the route for a call of the page: a fetch that
\* is answered without components, or not ok, goes the way of a rejected one.
PageAdkOutcomes == { "components", "empty", "rejected" }

\* The JSON the route answers a call with.
resultOf(call) == POST(routeVersion, fetchBody(call.inputQuery), call.adk).body

\* The timer of a call that is due first, and whether it can be the next of
\* all timers to fire: a timer set earlier with the same delay fires first,
\* and the timers of 300 and 800 ms of the calls that had started when a
\* fetch settled fire before the timer of 3000 ms set on that settling.
timerDue(i) ==
    /\ calls[i].timers # << >>
    /\ LET timer == Head(calls[i].timers)
       IN  IF timer = "idle"
           THEN /\ \A j \in 1 .. calls[i].seen :
                      Range(calls[j].timers) \subseteq { "idle" }
                /\ \A k \in DOMAIN arrivals :
                      (\E l \in DOMAIN arrivals : l > k /\ arrivals[l] = i) =>
                          calls[arrivals[k]].timers = << >>
           ELSE \A j \in 1 .. (i - 1) : timer \notin Range(calls[j].timers)

InitPage ==
    /\ RendererIdle /\ ChartsIdle /\ MapIdle
    /\ routeVersion \in RouteVersions
    /\ adkServer = "none" /\ requestBody = Null /\ response = Null
    /\ agentsCalled = << >>
    /\ components = << >>
    /\ isLoading = FALSE
    /\ query = << >>
    /\ performanceMetrics = Null
    /\ agentStatuses = allAgents("idle")
    /\ history \in SavedHistories
    /\ calls = << >>
    /\ arrivals = << >>

handleBusinessQueryAborting(inputQuery) ==
    /\ Len(calls) < MaxCalls
    /\ isLoading' = TRUE
    /\ components' = << >>
    /\ performanceMetrics' = Null
    /\ calls' = Append([i \in DOMAIN calls |->
                          IF calls[i].fetch = "pending"
                          THEN [calls[i] EXCEPT !.fetch = "aborted"]
                          ELSE calls[i]],
                       [inputQuery |-> inputQuery, fetch |-> "pending",
                        adk |-> "none",
                        timers |-> << "thinking", "generating" >>,
                        seen |-> 0])
    /\ UNCHANGED << agentStatuses, history, arrivals >>

\* handleBusinessQuery(inputQuery), up to the await of the fetch.
handleBusinessQuery(inputQuery) ==
    /\ Len(calls) < MaxCalls
    /\ isLoading' = TRUE
    /\ components' = << >>
    /\ performanceMetrics' = Null
    /\ calls' = Append(calls, [inputQuery |-> inputQuery, fetch |-> "pending",
                               adk |-> "none",
                               timers |-> << "thinking", "generating" >>,
                               seen |-> 0])
    /\ UNCHANGED << agentStatuses, history, arrivals >>

\* onChange of the input, which is disabled while loading.
Type(value) ==
    /\ ~isLoading
    /\ query' = value
    /\ UNCHANGED << components, isLoading, performanceMetrics, agentStatuses, history,
                    calls, arrivals >>
    /\ UNCHANGED << rendererVars, chartVars, apiVars, mapVars >>

\* handleSubmit of BusinessQueryInput: the button is disabled while loading.
Submit ==
    /\ ~isLoading
    /\ trimValue(query) # << >>
    /\ handleBusinessQuery(trimValue(query))
    /\ UNCHANGED query
    /\ UNCHANGED << rendererVars, chartVars, apiVars, mapVars >>

\* An example of EmptyState, shown while the list is empty and not loading.
ClickExample(example) ==
    /\ components = << >> /\ ~isLoading
    /\ handleBusinessQuery(example)
    /\ UNCHANGED query
    /\ UNCHANGED << rendererVars, chartVars, apiVars, mapVars >>

\* onSelectQuery of QueryHistory: an item of the history is clicked.
SelectQuery(n) ==
    /\ n \in DOMAIN history
    /\ query' = history[n].query
    /\ handleBusinessQuery(history[n].query)
    /\ UNCHANGED << rendererVars, chartVars, apiVars, mapVars >>

\* A callback of setTimeout of the i-th call runs.
TimerFires(i) ==
    /\ i \in DOMAIN calls
    /\ timerDue(i)
    /\ agentStatuses' = allAgents(Head(calls[i].timers))
    /\ calls' = [calls EXCEPT ![i].timers = Tail(@)]
    /\ UNCHANGED << components, isLoading, query, performanceMetrics, history,
                    arrivals >>
    /\ UNCHANGED << rendererVars, chartVars, apiVars, mapVars >>

\* The fetch of the i-th call is answered by the route, whose own fetch of
\* the ADK server came to adk: the rest of handleBusinessQuery runs.
FetchAnswered(i, adk) ==
    /\ i \in DOMAIN calls
    /\ calls[i].fetch = "pending"
    /\ isLoading' = FALSE
    /\ arrivals' = Append(arrivals, i)
    /\ \E answer \in { POST(routeVersion, fetchBody(calls[i].inputQuery), adk) } :
          /\ calls' = [calls EXCEPT
                 ![i].fetch = "answered",
                 ![i].adk = IF "ADK server" \in Range(answer.agents) THEN adk
                            ELSE "none",
                 ![i].timers = Append(@, "idle"),
                 ![i].seen = Len(calls)]
          /\ IF "components" \in DOMAIN answer.body
             THEN /\ components' = GeneratedComponents(answer.body.components)
                  /\ agentStatuses' = allAgents("complete")
                  /\ performanceMetrics' =
                         [componentCount |-> Len(answer.body.components),
                          agentTrace |-> IF "agent_trace" \in DOMAIN answer.body
                                         THEN answer.body.agent_trace ELSE << >>]
                  /\ history' = addToHistory(history, calls[i].inputQuery,
                                             Len(answer.body.components))
             ELSE UNCHANGED << components, agentStatuses, performanceMetrics, history >>
    /\ UNCHANGED query
    /\ UNCHANGED << rendererVars, chartVars, apiVars, mapVars >>

FetchRejectedStillLoading(i) ==
    /\ i \in DOMAIN calls
    /\ calls[i].fetch = "pending"
    /\ calls' = [calls EXCEPT ![i].fetch = "rejected",
                              ![i].timers = Append(@, "idle"),
                              ![i].seen = Len(calls)]
    /\ components' = errorComponents
    /\ arrivals' = Append(arrivals, i)
    /\ UNCHANGED << isLoading, query, performanceMetrics, agentStatuses, history >>
    /\ UNCHANGED << rendererVars, chartVars, apiVars, mapVars >>

\* The fetch of the i-th call fails, or its answer is not JSON: the catch
\* block and the rest of handleBusinessQuery run.
FetchRejected(i) ==
    /\ i \in DOMAIN calls
    /\ calls[i].fetch = "pending"
    /\ calls' = [calls EXCEPT ![i].fetch = "rejected",
                              ![i].timers = Append(@, "idle"),
                              ![i].seen = Len(calls)]
    /\ components' = errorComponents
    /\ isLoading' = FALSE
    /\ arrivals' = Append(arrivals, i)
    /\ UNCHANGED << query, performanceMetrics, agentStatuses, history >>
    /\ UNCHANGED << rendererVars, chartVars, apiVars, mapVars >>

NextPage ==
    \/ \E value \in TypedValues : Type(value)
    \/ Submit
    \/ \E example \in exampleQueries : ClickExample(example)
    \/ \E n \in 1 .. HistoryLimit : SelectQuery(n)
    \/ \E i \in 1 .. MaxCalls : TimerFires(i)
    \/ \E i \in 1 .. MaxCalls, adk \in PageAdkOutcomes : FetchAnswered(i, adk)
    \/ \E i \in 1 .. MaxCalls : FetchRejected(i)

SpecPage == InitPage /\ [][NextPage]_vars

\* The fetch of the i-th call settles: it is answered or it fails.
FetchSettles(i) ==
    \/ FetchRejected(i)
    \/ \E adk \in PageAdkOutcomes : FetchAnswered(i, adk)

\* The page where every fetch settles: the continuation of an await runs
\* once its promise is settled.
SpecPageLive == SpecPage /\ \A i \in 1 .. MaxCalls : WF_vars(FetchSettles(i))

(***************************************************************************)
(* QueryHistory on its own: addToHistory is reachable through              *)
(* window.addQueryToHistory with any string.                               *)
(***************************************************************************)
\* Most items of the history.
MaxItems == 3

\* The queries addToHistory is called with.
HistoryQueries ==
    { << "hello" >>, << "Hello" >>, << "hello", "[space]" >>, << "Sales", "trends" >> }

ComponentCounts == { 1, 2 }

InitHistory ==
    /\ RendererIdle /\ ChartsIdle /\ ApiIdle /\ MapIdle
    /\ components = << >>
    /\ isLoading = FALSE
    /\ query = << >>
    /\ performanceMetrics = Null
    /\ agentStatuses = << >>
    /\ history \in SavedHistories
    /\ calls = << >>
    /\ arrivals = << >>

\* addToHistory(q, componentCount)
AddToHistory(q, componentCount) ==
    /\ Len(addToHistory(history, q, componentCount)) <= MaxItems
    /\ history' = addToHistory(history, q, componentCount)
    /\ UNCHANGED << components, isLoading, query, performanceMetrics, agentStatuses,
                    calls, arrivals >>
    /\ UNCHANGED << rendererVars, chartVars, apiVars, mapVars >>

\* toggleFavorite(id) with the id of the n-th item: ids are clock readings,
\* taken to differ.
ToggleFavorite(n) ==
    /\ n \in DOMAIN history
    /\ history' = [history EXCEPT ![n].isFavorite = ~@]
    /\ UNCHANGED << components, isLoading, query, performanceMetrics, agentStatuses,
                    calls, arrivals >>
    /\ UNCHANGED << rendererVars, chartVars, apiVars, mapVars >>

\* clearHistory()
ClearHistory ==
    /\ history # << >>
    /\ history' = << >>
    /\ UNCHANGED << components, isLoading, query, performanceMetrics, agentStatuses,
                    calls, arrivals >>
    /\ UNCHANGED << rendererVars, chartVars, apiVars, mapVars >>

NextHistory ==
    \/ \E q \in HistoryQueries, componentCount \in ComponentCounts :
          AddToHistory(q, componentCount)
    \/ \E n \in 1 .. MaxItems : ToggleFavorite(n)
    \/ ClearHistory

SpecHistory == InitHistory /\ [][NextHistory]_vars

(***************************************************************************)
(* InteractiveMapDisplay.  A status message is the sequence of its parts;  *)
(* flyTo and its fallback setView have the same target and are one step.   *)
(***************************************************************************)
\* Most callbacks of setTimeout that have not run yet.
MaxTimers == 2

mapMarkers ==
    << MarkerData(<< 340522, -1182437 >>, "California: $45,000", "#ef4444", 20),
       MarkerData(<< 319686, -999018 >>, "Texas: $32,000", "#f97316", 15),
       MarkerData(<< 407589, -739851 >>, "New York: $28,000", "#eab308", 13) >>

\* A map as an agent writes it, with or without a category selected.
agentMapData(current_category) ==
    [type |-> "interactive_map",
     title |-> "Regional Sales",
     map_config |-> [center |-> << 39, -98 >>, zoom |-> 4, markers |-> mapMarkers],
     performance_categories |->
        [west |-> [label |-> "West", color |-> "#8b5cf6",
                   regions |-> << "California", "Texas" >>,
                   zoom_bounds |-> [center |-> << 34, -110 >>, zoom |-> 6]],
         east |-> [label |-> "East", color |-> "#a855f7",
                   regions |-> << "New York" >>,
                   zoom_bounds |-> [center |-> << 41, -74 >>, zoom |-> 7]]],
     current_category |-> current_category]

\* The maps the renderer passes: built from markers, or parsed from JSON.
MapDatas ==
    { enhancedMapData("Regional Sales", << 39, -98 >>, 4, mapMarkers),
      agentMapData(None), agentMapData(Some("west")) }

\* mapData.current_category || null
presetCategory(data) ==
    IF "current_category" \in DOMAIN data THEN data.current_category ELSE None

\* marker.label.split(':')[0].trim()
regionName(label) == trim(regionOf(label))

\* mapData.map_config.markers.filter(marker => category.regions.includes(...))
categoryMarkers(data, category) ==
    SelectSeq(data.map_config.markers,
              LAMBDA marker : regionName(marker.label) \in Range(category.regions))

InitMap ==
    /\ RendererIdle /\ ChartsIdle /\ ApiIdle /\ PageIdle
    /\ mapData \in MapDatas
    /\ mapIsClient = FALSE
    /\ currentCenter = mapData.map_config.center
    /\ currentZoom = mapData.map_config.zoom
    /\ selectedCategory = presetCategory(mapData)
    /\ filteredMarkers = mapData.map_config.markers
    /\ statusMessage = << >>
    /\ mapRef = None
    /\ flyTimers = << >>

\* The effect after the first render.
MapClientEffect ==
    /\ ~mapIsClient
    /\ mapIsClient' = TRUE
    /\ UNCHANGED << mapData, currentCenter, currentZoom, selectedCategory,
                    filteredMarkers, statusMessage, mapRef, flyTimers >>
    /\ UNCHANGED << rendererVars, chartVars, apiVars, pageVars >>

\* The MapContainer is loaded and created with the center and zoom props.
MapCreated ==
    /\ mapIsClient
    /\ mapRef = None
    /\ mapRef' = Some([center |-> currentCenter, zoom |-> currentZoom])
    /\ UNCHANGED << mapData, mapIsClient, currentCenter, currentZoom, selectedCategory,
                    filteredMarkers, statusMessage, flyTimers >>
    /\ UNCHANGED << rendererVars, chartVars, apiVars, pageVars >>

\* handleCategoryClick(categoryId) for a category of the legend.
handleCategoryClick(categoryId) ==
    LET category == mapData.performance_categories[categoryId]
        isDeselecting == selectedCategory = Some(categoryId)
    IN  /\ Len(flyTimers) < MaxTimers
        /\ selectedCategory' = IF isDeselecting THEN None ELSE Some(categoryId)
        /\ statusMessage' =
              IF isDeselecting THEN << "Map view reset to show all regions" >>
              ELSE << "Zoomed to", category.label, "regions:", category.regions >>
        /\ IF selectedCategory = Some(categoryId)
           THEN /\ filteredMarkers' = mapData.map_config.markers
                /\ currentCenter' = mapData.map_config.center
                /\ currentZoom' = mapData.map_config.zoom
           ELSE /\ filteredMarkers' = categoryMarkers(mapData, category)
                /\ currentCenter' = category.zoom_bounds.center
                /\ currentZoom' = category.zoom_bounds.zoom
        /\ flyTimers' = Append(flyTimers, category.zoom_bounds)
        /\ UNCHANGED << mapData, mapIsClient, mapRef >>

\* onClick of a button of the legend, rendered once isClient is set.
CategoryClick(categoryId) ==
    /\ mapIsClient
    /\ categoryId \in DOMAIN mapData.performance_categories
    /\ handleCategoryClick(categoryId)
    /\ UNCHANGED << rendererVars, chartVars, apiVars, pageVars >>

\* handleCategoryKeyDown(event, categoryId)
CategoryKeyDown(key, categoryId) ==
    /\ mapIsClient
    /\ categoryId \in DOMAIN mapData.performance_categories
    /\ key \in { "Enter", " " }
    /\ handleCategoryClick(categoryId)
    /\ UNCHANGED << rendererVars, chartVars, apiVars, pageVars >>

\* The callback of setTimeout(..., 100) that is due first runs.
FlyTimerFires ==
    /\ flyTimers # << >>
    /\ flyTimers' = Tail(flyTimers)
    /\ mapRef' = IF mapRef # None THEN Some(Head(flyTimers)) ELSE mapRef
    /\ UNCHANGED << mapData, mapIsClient, currentCenter, currentZoom, selectedCategory,
                    filteredMarkers, statusMessage >>
    /\ UNCHANGED << rendererVars, chartVars, apiVars, pageVars >>

CategoryIds == { "high", "medium", "low", "west", "east" }

NextMap ==
    \/ MapClientEffect
    \/ MapCreated
    \/ \E categoryId \in CategoryIds : CategoryClick(categoryId)
    \/ \E key \in { "Enter", " ", "Tab" }, categoryId \in CategoryIds :
          CategoryKeyDown(key, categoryId)
    \/ FlyTimerFires

SpecMap == InitMap /\ [][NextMap]_vars

(***************************************************************************)
(* Vocabulary of the properties.                                           *)
(***************************************************************************)
Current == revision = "current"

\* componentCode.match(/data=\{(\[[\s\S]*?\])\}/)
dataMatchOf(text) == firstMatch([k \in DOMAIN text |-> dataCapture(text[k])])

AgentTypes == { "agent_response", "accessible_dashboard" }

\* text holds part as a contiguous piece
isInfix(part, text) ==
    \E i \in 0..(Len(text) - Len(part)) :
        \A j \in 1..Len(part) : text[i + j] = part[j]

\* The texts a tree displays.
displayedTexts(tree) ==
    { tree.props[k] : k \in { "text", "html" } \cap DOMAIN tree.props }

\* The tree displays the text verbatim (every tree holds the empty text).
showsVerbatim(tree, text) ==
    \/ text = << >>
    \/ \E shown \in displayedTexts(tree) : isInfix(text, shown)

\* The centers of the marker nodes of a tree.
markerCenters(tree) ==
    IF "markers" \in DOMAIN tree.props
    THEN [i \in DOMAIN tree.props.markers |-> tree.props.markers[i].center]
    ELSE << >>

\* The centers written in the marker sub-calls of a text.
writtenCenters(text) ==
    LET m == allMarkerMatches(text)
    IN  [i \in DOMAIN m |-> << parseFloat(m[i].center[1]), parseFloat(m[i].center[2]) >>]

\* Building and calling a function from the text would fail.
executorFails(text) ==
    \/ ~parsesAsBody(removeFences(text))
    \/ LET operand == returnOperand(removeFences(text))
       IN  /\ operand # << >>
           /\ \/ Len(operand) > 1
              \/ \E i \in DOMAIN freeNames(operand[1]) :
                    freeNames(operand[1])[i] \notin agentParams \cup Globals

(***************************************************************************)
(* C1.  For every componentType of the known tag set and every             *)
(* componentCode the renderer returns a non-null tree and no exception     *)
(* leaves the render pass, neither from the renderer nor from the          *)
(* component it hands the parsed data to.                                  *)
(***************************************************************************)
C1_RenderNeverThrows ==
    (Current /\ componentType \in KnownTypes) =>
        (thrown = "none" /\ RenderedComponent # NullTree)

C4_MarkersFromText ==
    (/\ Current
     /\ componentType = "regional_heatmap"
     /\ Len(allMarkerMatches(componentCode)) = 3) =>
        /\ Len(markerCenters(RenderedComponent)) = 3
        /\ markerCenters(RenderedComponent) = writtenCenters(componentCode)

(***************************************************************************)
(* C5.  As claimed: a function built from componentCode is called only     *)
(* when the text holds the call-tree marker React.createElement; for every *)
(* other text nothing of componentCode is executed.                        *)
(***************************************************************************)
C5_ExecutesOnlyCallTrees ==
    (\E i \in DOMAIN executions : executions[i].invoked) =>
        includes(componentCode, "React.createElement")

\* C5 as amended: a function is built from componentCode, and called, only
\* when the text holds the call-tree marker React.createElement or, in the
\* earlier revision of the renderer, when it has the form of an immediately
\* invoked arrow function "(() => { ... })()", whose body is then executed;
\* for every other text nothing of componentCode is executed.  In the
\* current revision only the agent_response and the dashboard cases execute.
C5_ExecutesCallTreesAndIIFE ==
    (executions # << >>) =>
        /\ \/ includes(componentCode, "React.createElement")
           \/ /\ revision = "legacy"
              /\ includes(componentCode, "(() => {")
              /\ \A i \in DOMAIN executions : executions[i].site = "legacy_iife"
        /\ Current =>
              /\ isClient
              /\ includes(componentCode, "React.createElement")
              /\ componentType \in AgentTypes \cup
                    { "comprehensive_dashboard", "comprehensive_business_dashboard",
                      "business_intelligence_dashboard" }

C5_Witness ==
    /\ revision = "legacy"
    /\ componentCode = << "IIFE" >>
    /\ ~includes(componentCode, "React.createElement")
    /\ executions # << >>
    /\ executions[1].invoked
    /\ executions[1].site = "legacy_iife"
    /\ RenderedComponent.site = "executed"

(***************************************************************************)
(* C6.  On every path that executes componentCode the text is first        *)
(* checked to parse as a single expression, and only a text that passed    *)
(* the check is built into a function and called.                          *)
(***************************************************************************)
C6_ParseCheckedBeforeCall ==
    \A i \in DOMAIN executions :
        executions[i].invoked =>
            /\ executions[i].checked
            /\ parsesAsExpression(executions[i].text)

(***************************************************************************)
(* C7.  The function built from componentCode reads only the names passed  *)
(* as its parameters; no name outside them, in particular no global, is    *)
(* reached by the executed text.                                           *)
(***************************************************************************)
C7_ReachesOnlyParameters ==
    \A i \in DOMAIN executions :
        executions[i].reached \subseteq executions[i].params

(***************************************************************************)
(* C8.  As claimed: the format checks run in the priority order call-tree  *)
(* marker, fenced JSON block, root markup tag, freeform; so a text holding *)
(* the call-tree marker is handled as a call tree whatever else it holds.  *)
(***************************************************************************)
CallTreeSites ==
    { "agent_response.ssr", "agent_safe_map", "agent_chart", "executed",
      "agent_exec_error", "none" }

C8_CallTreeWins ==
    (/\ Current
     /\ componentType \in AgentTypes
     /\ includes(componentCode, "React.createElement")) =>
        RenderedComponent.site \in CallTreeSites

\* C8 as amended: in the agent_response case the format checks run in this
\* order and the first that matches wins: (1) a fenced JSON block that
\* holds "type": "interactive_map" and parses, (2) geospatial content whose
\* map data can be extracted, (3) the call-tree marker React.createElement,
\* (4) accessibility content, (5) a root <Card> markup tag, (6) the
\* freeform card.  A text that holds both the call-tree marker and such a
\* fenced JSON block is handled as interactive map JSON.
C8_JsonMapWins ==
    (Current /\ componentType \in AgentTypes) =>
        LET cleanedCode == removeFences(componentCode)
            site == RenderedComponent.site
        IN  IF InteractiveMapJson(componentCode) # None
            THEN site = "agent_json_map"
            ELSE IF GeospatialContent(cleanedCode) # None
            THEN site = "agent_geo_map"
            ELSE IF includes(cleanedCode, "React.createElement")
            THEN site \in CallTreeSites
            ELSE IF AccessibilityComponent(cleanedCode, componentType) # None
            THEN site = "accessible"
            ELSE IF startsWith(cleanedCode, "<Card") /\ includes(cleanedCode, "</Card>")
            THEN site = "agent_inner_html"
            ELSE site = "agent_generic"

C8_Witness ==
    /\ Current
    /\ componentType = "agent_response"
    /\ componentCode = << "CT", "FJFull" >>
    /\ isClient
    /\ RenderedComponent.site = "agent_json_map"

(***************************************************************************)
(* C9.  The extraction step never throws, for any componentCode and        *)
(* componentType, and ends with a dataset that is not null: the parsed     *)
(* array or one of the default datasets.                                   *)
(***************************************************************************)
C9_ExtractionYieldsData ==
    Current =>
        /\ thrown # "extraction"
        /\ extractedData # None
        /\ LET dataMatch == dataMatchOf(componentCode)
           IN  \/ extractedData[1] \in { defaultSalesData, defaultProductData }
               \/ /\ dataMatch # None
                  /\ ~JSONparseArray(dataMatch[1]).thrown
                  /\ extractedData[1] = JSONparseArray(dataMatch[1]).value

C9_Witness ==
    /\ Current
    /\ componentType = "trend_line"
    /\ componentCode = << "DataBad", "Title" >>
    /\ JSONparseArray(dataMatchOf(componentCode)[1]).thrown
    /\ extractedData = Some(defaultSalesData)
    /\ thrown = "none"
    /\ isClient

(***************************************************************************)
(* C10.  When the data-array literal is found but does not parse, the      *)
(* dataset falls back to the default of the declared type: the comparison  *)
(* default for comparison_bar and comparison_chart, the trend default for  *)
(* the other types; no error propagates.                                   *)
(***************************************************************************)
C10_ParseFailureDefaultByType ==
    (/\ Current
     /\ dataMatchOf(componentCode) # None
     /\ JSONparseArray(dataMatchOf(componentCode)[1]).thrown) =>
        /\ thrown # "extraction"
        /\ extractedData =
              Some(IF componentType \in { "comparison_bar", "comparison_chart" }
                   THEN defaultProductData
                   ELSE defaultSalesData)

(***************************************************************************)
(* C11.  When componentCode holds no data array (the empty text among      *)
(* others), extraction yields the comparison default dataset of the four   *)
(* categories Product A..D for comparison_bar and comparison_chart, and    *)
(* the trend default dataset of the six months Jan..Jun for every other    *)
(* type.                                                                   *)
(***************************************************************************)
categoriesOf(data) == [i \in DOMAIN data |-> data[i].category]
monthsOf(data) == [i \in DOMAIN data |-> data[i].month]

C11_DefaultDataByType ==
    (Current /\ dataMatchOf(componentCode) = None) =>
        /\ extractedData # None
        /\ IF componentType \in { "comparison_bar", "comparison_chart" }
           THEN /\ extractedData[1] = defaultProductData
                /\ categoriesOf(extractedData[1]) =
                      << "Product A", "Product B", "Product C", "Product D" >>
           ELSE /\ extractedData[1] = defaultSalesData
                /\ monthsOf(extractedData[1]) =
                      << "Jan", "Feb", "Mar", "Apr", "May", "Jun" >>

C11_Witness ==
    /\ Current
    /\ componentCode = << >>
    /\ componentType = "comparison_chart"
    /\ extractedData = Some(defaultProductData)
    /\ RenderedComponent.component = "RechartsComparison"
    /\ RenderedComponent.props.data = defaultProductData

(***************************************************************************)
(* C12.  For componentType trend_line, when componentCode holds a JSON     *)
(* data array (in a data={[...]} attribute) and a heading (a CardTitle     *)
(* element), the renderer returns the trend chart with exactly the data    *)
(* points of that array, one point for a one-element array, and with the   *)
(* heading text, trimmed, as its title.                                    *)
(***************************************************************************)
headingOf(text) == firstMatch([k \in DOMAIN text |-> titleCapture(text[k])])

SynonymGroups ==
    { { "trend_line", "sales_trend" },
      { "metric_card", "kpi" },
      { "comparison_bar", "comparison_chart" },
      { "agent_response", "accessible_dashboard" },
      { "comprehensive_dashboard", "comprehensive_business_dashboard",
        "business_intelligence_dashboard" },
      { "ytd_metrics", "ytd_dashboard", "kpi_dashboard" },
      { "ranking_table", "rankings", "top_performers" } }

synonymsOf(type) == UNION { g \in SynonymGroups : type \in g }

\* What the pass in the current state would have been under another tag.
passUnder(type) == Render(revision, componentCode, type, isClient)

C15_SynonymsSameTree ==
    Current =>
        \A other \in synonymsOf(componentType) :
            /\ passUnder(other).tree = RenderedComponent
            /\ passUnder(other).thrown = thrown

\* C15 as amended: the tags of one case of the switch give the same tree
\* for every componentCode, except the pair agent_response /
\* accessible_dashboard: when none of the first three format checks (map
\* JSON, geospatial content, React.createElement) matches and the text
\* holds none of WCAG, accessibility, Keyboard, accessible_dashboard gets
\* the accessibility card while agent_response goes on to the <Card> and
\* freeform checks.
C15_SynonymsSameTreeButAccessible ==
    Current =>
        \A other \in synonymsOf(componentType) :
            \/ /\ passUnder(other).tree = RenderedComponent
               /\ passUnder(other).thrown = thrown
            \/ /\ { componentType, other } = AgentTypes
               /\ LET cleanedCode == removeFences(componentCode)
                      mine   == RenderedComponent.site
                      theirs == passUnder(other).tree.site
                  IN  /\ InteractiveMapJson(componentCode) = None
                      /\ GeospatialContent(cleanedCode) = None
                      /\ ~includes(cleanedCode, "React.createElement")
                      /\ ~includes(cleanedCode, "WCAG")
                      /\ ~includes(cleanedCode, "accessibility")
                      /\ ~includes(cleanedCode, "Keyboard")
                      /\ IF componentType = "accessible_dashboard"
                         THEN mine = "accessible"
                              /\ theirs \in { "agent_inner_html", "agent_generic" }
                         ELSE theirs = "accessible"
                              /\ mine \in { "agent_inner_html", "agent_generic" }

C15_Witness ==
    /\ Current
    /\ isClient
    /\ componentType = "accessible_dashboard"
    /\ componentCode = << "hello" >>
    /\ RenderedComponent.site = "accessible"
    /\ passUnder("agent_response").tree.site = "agent_generic"

(***************************************************************************)
(* C16.  As claimed: every handled rendering error (a text that does not   *)
(* parse, a built function that throws, an unrecognized type) ends in a    *)
(* card that shows the componentCode text; never in an empty output or an  *)
(* exception.                                                              *)
(***************************************************************************)
\* An execution of the text was tried in the last pass and failed.
executionFailed ==
    \E i \in DOMAIN executions :
        \/ ~executions[i].built
        \/ callFunction([params |-> executions[i].params, body |-> executions[i].text],
                        [n \in executions[i].params |-> n]).thrown

\* The tree shows the whole text, in a text node or in an uncut preview.
showsWhole(tree, text) ==
    \/ showsVerbatim(tree, text)
    \/ /\ "preview" \in DOMAIN tree.props
       /\ ~tree.props.preview.cut
       /\ tree.props.preview.shown = text

C14_EmptyDataShowsSample ==
    (primitive # "none" /\ dataProp = Value(<< >>)) =>
        /\ shownPoints(chart) # << >>
        /\ shownPoints(chart) = sampleData(primitive)

(***************************************************************************)
(* Vocabulary of the properties of the route.                              *)
(***************************************************************************)
\* A POST request has been answered.
answeredPost == requestBody # Null /\ response # Null

\* The query of the answered body: undefined where the body has none.
postedQuery ==
    IF requestBody.value.json = "object" THEN requestBody.value.query
    ELSE [type |-> "undefined"]

\* The answered body is JSON with its query missing, empty or not a string.
queryRefused == postedQuery.type # "string" \/ Len(postedQuery.words) = 0

componentTypes(list) == { list[i].component_type : i \in DOMAIN list }

(***************************************************************************)
(* C19.  POST /api/analyze answers status 400 with an error body, and      *)
(* calls no agent (neither the ADK server nor the simulation), whenever    *)
(* the query of the body is missing, empty or not a string; only a         *)
(* non-empty string query reaches the agents.                              *)
(***************************************************************************)
C19_BadQueryIs400 ==
    answeredPost =>
        /\ queryRefused =>
              /\ response.status = 400
              /\ "error" \in DOMAIN response.body
              /\ agentsCalled = << >>
        /\ agentsCalled # << >> => ~queryRefused

(***************************************************************************)
(* C19, as the code has it.  A body that is JSON other than null whose     *)
(* query is missing, empty or not a string is answered 400 with an error   *)
(* body; a body that is not JSON, or is null, is answered 500 with an      *)
(* error body; no agent is called in either case, and only a non-empty     *)
(* string query reaches the agents.                                        *)
(***************************************************************************)
C19_BadQueryIs400Or500 ==
    answeredPost =>
        /\ queryRefused =>
              /\ response.status =
                    (IF requestBody.value.json \in { "malformed", "null" } THEN 500
                     ELSE 400)
              /\ "error" \in DOMAIN response.body
              /\ "components" \notin DOMAIN response.body
              /\ agentsCalled = << >>
        /\ ~queryRefused => response.status = 200 /\ agentsCalled # << >>

C19_Witness ==
    /\ answeredPost
    /\ requestBody.value = [json |-> "object", query |-> String(<< >>)]
    /\ response.status = 400
    /\ agentsCalled = << >>

(***************************************************************************)
(* C20.  simulateRootAgent returns at least one component for every query  *)
(* string: when no keyword group matches it returns exactly one component  *)
(* of type general_response, and a general_response component is returned  *)
(* only in that case.                                                      *)
(***************************************************************************)
C20_AtLeastOneComponent ==
    (answeredPost /\ "simulateRootAgent" \in Range(agentsCalled)) =>
        LET results == response.body.components
            unmatched == \A k \in DOMAIN keywordGroups(routeVersion) :
                            ~matches(keywordGroups(routeVersion)[k], postedQuery.words)
        IN  /\ Len(results) >= 1
            /\ unmatched =>
                  Len(results) = 1 /\ results[1].component_type = "general_response"
            /\ "general_response" \in componentTypes(results) => unmatched

C20_Witness ==
    /\ answeredPost
    /\ "simulateRootAgent" \in Range(agentsCalled)
    /\ postedQuery = String(<< "hello", "[quote]Q4[quote]" >>)
    /\ Len(response.body.components) = 1
    /\ response.body.components[1].component_type = "general_response"

(***************************************************************************)
(* Vocabulary of the properties of the page.                               *)
(***************************************************************************)
\* The list shows what the fetch of the call came to: the components of
\* its answer, one for one, or the error component of the catch block.
showsResultOf(list, call) ==
    IF call.fetch = "rejected"
    THEN list = errorComponents
    ELSE LET answered == resultOf(call).components
         IN  /\ Len(list) = Len(answered)
             /\ \A k \in DOMAIN answered :
                   /\ list[k].agent_name = answered[k].agent
                   /\ list[k].component_type = answered[k].component_type
                   /\ list[k].component_code = answered[k].component_code

\* The list shows the components of simulateRootAgent for the query.
showsCanned(list, inputQuery) ==
    LET canned == simulateRootAgent(routeVersion, inputQuery)
    IN  /\ Len(list) = Len(canned)
        /\ \A k \in DOMAIN canned :
              /\ list[k].component_type = canned[k].component_type
              /\ list[k].component_code = canned[k].component_code

showsError(list) == \E k \in DOMAIN list : list[k].component_type = "error"

\* Every call has settled; lastArrived is then the call that settled last.
allSettled == calls # << >> /\ Len(arrivals) = Len(calls)
lastArrived == calls[arrivals[Len(arrivals)]]

(***************************************************************************)
(* C17.  When handleBusinessQuery is called for a query Q2 while the       *)
(* request of Q1 is still in flight, neither request is cancelled and no   *)
(* sequence token is compared: a call that starts leaves the calls before  *)
(* it as they are, a fetch that settles leaves the other calls as they     *)
(* are and overwrites the list shown with its own outcome, and once every  *)
(* call has settled the list shown is that of the call that settled        *)
(* last, so Q1's when the response of Q1 arrives after that of Q2.         *)
(***************************************************************************)
C17_LastArrivalWins ==
    [][ /\ Len(calls') > Len(calls) =>
              \A j \in DOMAIN calls : calls'[j] = calls[j]
        /\ \A i \in DOMAIN calls :
              (calls[i].fetch = "pending" /\ calls'[i].fetch # "pending") =>
                  /\ showsResultOf(components', calls'[i])
                  /\ \A j \in DOMAIN calls : j # i => calls'[j] = calls[j]
        /\ allSettled' => showsResultOf(components', lastArrived')
      ]_vars

C17_Witness ==
    /\ Len(calls) = 2
    /\ calls[1].inputQuery # calls[2].inputQuery
    /\ calls[1].seen = 2
    /\ arrivals = << 2, 1 >>
    /\ calls[1].fetch = "answered" /\ calls[2].fetch = "answered"
    /\ showsResultOf(components, calls[1])
    /\ ~showsResultOf(components, calls[2])

(***************************************************************************)
(* C18.  When fetching the components fails at transport level, the        *)
(* caller substitutes the local keyword-matched canned components and no   *)
(* error is shown to the user: so for the fetch of the ADK server by the   *)
(* route and for the fetch of the route by the page.                       *)
(***************************************************************************)
C18_FailureShowsCanned ==
    (allSettled /\ (lastArrived.fetch = "rejected" \/ lastArrived.adk = "rejected")) =>
        /\ showsCanned(components, lastArrived.inputQuery)
        /\ ~showsError(components)

(***************************************************************************)
(* C18, as the code has it.  When the fetch of the ADK server by the route *)
(* fails, callRealADKAgents substitutes the components of                  *)
(* simulateRootAgent and the page shows them and no error; when the fetch  *)
(* of the route by the page fails, the page shows the one error component  *)
(* of its catch block and no canned component.                             *)
(***************************************************************************)
C18_FailureCannedOrError ==
    allSettled =>
        /\ (lastArrived.fetch = "answered" /\ lastArrived.adk = "rejected") =>
              /\ showsCanned(components, lastArrived.inputQuery)
              /\ ~showsError(components)
        /\ lastArrived.fetch = "rejected" =>
              /\ components = errorComponents
              /\ ~showsCanned(components, lastArrived.inputQuery)

C18_Witness ==
    /\ allSettled
    /\ lastArrived.fetch = "answered"
    /\ lastArrived.adk = "rejected"
    /\ showsCanned(components, lastArrived.inputQuery)
    /\ components # << >>

(***************************************************************************)
(* C21.  simulateRootAgent returns exactly one component per matched       *)
(* keyword group, matching keywords as case-insensitive substrings of the  *)
(* query, in the fixed order trend_line (trend or sales), metric_card      *)
(* (metric or kpi), comparison_bar (compare or comparison),                *)
(* regional_heatmap (regional, territory, map, location or geospatial); a  *)
(* query matching several groups gets one component of each.  The first    *)
(* revision of the route has the first three groups only.                  *)
(***************************************************************************)
C21_OnePerMatchedGroup ==
    (answeredPost /\ "simulateRootAgent" \in Range(agentsCalled)) =>
        LET groups ==
                << [type |-> "trend_line", keywords |-> { "trend", "sales" }],
                   [type |-> "metric_card", keywords |-> { "metric", "kpi" }],
                   [type |-> "comparison_bar", keywords |-> { "compare", "comparison" }] >>
                \o (IF routeVersion = "second"
                    THEN << [type |-> "regional_heatmap",
                             keywords |-> { "regional", "territory", "map", "location",
                                            "geospatial" }] >>
                    ELSE << >>)
            matched(k) == \E keyword \in groups[k].keywords :
                             queryIncludes(postedQuery.words, keyword)
            results == response.body.components
            types == [i \in DOMAIN results |-> results[i].component_type]
        IN  (\E k \in DOMAIN groups : matched(k)) =>
                /\ Len(results) = Cardinality({ k \in DOMAIN groups : matched(k) })
                /\ \A k \in DOMAIN groups :
                      matched(k) <=> groups[k].type \in Range(types)
                /\ \A i, j \in DOMAIN results :
                      i < j =>
                        \E k, l \in DOMAIN groups :
                            /\ k < l
                            /\ groups[k].type = types[i]
                            /\ groups[l].type = types[j]

C21_Witness ==
    /\ answeredPost
    /\ routeVersion = "second"
    /\ postedQuery = String(<< "roadmap", "Sales" >>)
    /\ Len(response.body.components) = 2
    /\ response.body.components[1].component_type = "trend_line"
    /\ response.body.components[2].component_type = "regional_heatmap"

(***************************************************************************)
(* C22.  After addToHistory(q, n) the new entry for q is the first entry   *)
(* of the history and no other entry has a query equal to q ignoring case; *)
(* so after any sequence of addToHistory calls the history holds no two    *)
(* entries whose queries are equal ignoring case.                          *)
(***************************************************************************)
C22_NoTwoEqualIgnoringCase ==
    \A i, j \in DOMAIN history :
        i # j => lowerCaseQuery(history[i].query) # lowerCaseQuery(history[j].query)

(***************************************************************************)
(* C24.  isLoading is true in every state in which a request started by    *)
(* handleBusinessQuery is still in flight, also when several queries       *)
(* overlap: the input stays disabled until the last pending response has   *)
(* been applied.                                                           *)
(***************************************************************************)
C24_LoadingWhileInFlight ==
    (\E i \in DOMAIN calls : calls[i].fetch = "pending") => isLoading

(***************************************************************************)
(* C25.  Whenever a query started by handleBusinessQuery has finished      *)
(* (isLoading back to false), the dashboard shows at least one component   *)
(* of the response or the error component: it never finishes with an       *)
(* empty component list and no error indication.                           *)
(***************************************************************************)
C25_FinishedShowsSomething ==
    (arrivals # << >> /\ ~isLoading) => components # << >>

(***************************************************************************)
(* C27.  The agent statuses only ever advance in the order idle, thinking, *)
(* generating, complete, idle, under any interleaving of the timers with   *)
(* responses and with overlapping queries: no status goes backwards, or    *)
(* from thinking or generating directly to idle.                           *)
(***************************************************************************)
C27_StatusesAdvanceInOrder ==
    [][ \A agent \in AgentNames :
           \/ agentStatuses'[agent] = agentStatuses[agent]
           \/ << agentStatuses[agent], agentStatuses'[agent] >> \in
                 { << "idle", "thinking" >>, << "thinking", "generating" >>,
                   << "generating", "complete" >>, << "complete", "idle" >> }
      ]_vars

configuredView ==
    [center |-> mapData.map_config.center, zoom |-> mapData.map_config.zoom]

(***************************************************************************)
(* C23.  Clicking the category that is currently selected deselects it:    *)
(* selectedCategory becomes null, all markers of the map configuration are *)
(* shown again, and the map view (center and zoom, including the view the  *)
(* map is flown to afterwards) returns to the configured initial center    *)
(* and zoom, as the status message announces.                              *)
(***************************************************************************)
C23_DeselectResetsView ==
    [][ (selectedCategory # None /\ selectedCategory' = None) =>
            /\ filteredMarkers' = mapData.map_config.markers
            /\ statusMessage' = << "Map view reset to show all regions" >>
            /\ currentCenter' = configuredView.center
            /\ currentZoom' = configuredView.zoom
            /\ flyTimers'[Len(flyTimers')] = configuredView
      ]_vars

(***************************************************************************)
(* C28.  In every reachable state of InteractiveMapDisplay the shown       *)
(* markers agree with the selection: with no category selected            *)
(* filteredMarkers is the full marker list, and with a category selected   *)
(* it is exactly the markers whose region name (the label text before the  *)
(* colon) is in the regions of that category; from the initial state on,   *)
(* also when mapData.current_category is preset.                           *)
(***************************************************************************)
C28_MarkersAgreeWithSelection ==
    mapData # Null =>
        /\ selectedCategory = None => filteredMarkers = mapData.map_config.markers
        /\ selectedCategory # None =>
              LET regions == mapData.performance_categories[selectedCategory[1]].regions
              IN  filteredMarkers =
                      SelectSeq(mapData.map_config.markers,
                                LAMBDA marker : regionOf(marker.label) \in Range(regions))

(***************************************************************************)
(* C29.  The three extracted fields are independent: when the data literal *)
(* found in componentCode fails to parse, only extractedData changes (to a *)
(* default); a title inside <CardTitle> and a period token present in the  *)
(* same componentCode are still extracted after that pass.                 *)
(***************************************************************************)
C29_FieldsIndependent ==
    (/\ Current
     /\ isClient
     /\ thrown = "none"
     /\ dataMatchOf(componentCode) # None
     /\ JSONparseArray(dataMatchOf(componentCode)[1]).thrown) =>
        LET titleMatch  ==
                firstMatch([k \in DOMAIN componentCode |->
                               titleCapture(componentCode[k])])
            periodMatch ==
                firstMatch([k \in DOMAIN componentCode |->
                               periodCapture(componentCode[k])])
        IN  /\ extractedData # None
            /\ extractedTitle = IF titleMatch # None
                                THEN Some(trim(titleMatch[1])) ELSE None
            /\ extractedPeriod = periodMatch

====
